---- MODULE Spec2Model ----
(***************************************************************************)
(* A model of the account-state engine and transaction preparation of     *)
(* miden-base: Account (nonce / seed discipline), AssetVault (add, remove, *)
(* apply_delta over a sparse Merkle tree) and the pieces of the            *)
(* transaction executor that produce account deltas, build the advice map  *)
(* and answer the fee event.                                               *)
(*                                                                         *)
(* Felt values and u64 amounts do not fit TLC's integers, so the field     *)
(* modulus and MAX_AMOUNT are scaled down; every comparison and every      *)
(* wrap-around of the source is kept as it is written there.               *)
(***************************************************************************)
EXTENDS Integers, Sequences, FiniteSets, TLC

VARIABLES
    sys,            \* which component this behaviour exercises
    account,        \* the Account under test (or NoAccount before construction)
    accountResult,  \* what the last Account operation returned
    vault,          \* a stand-alone AssetVault (its Smt asset_tree)
    vaultResult,    \* what the last AssetVault operation returned
    tx,             \* a transaction run by the executor: kernel state and outcome
    advice,         \* TransactionAdviceInputs::new in progress: position, map, stack
    host,           \* TransactionExecutorHost around the fee event
    exec,           \* one execute_transaction call: VM, host, advice provider, outcome
    run,            \* a TransactionExecutor, its execution options and one run of the VM
    batch,          \* a ProposedBatch being built from proven transactions
    block,          \* a ProposedBlock being built from batches and proven
    kernel,         \* the assets one transaction takes in and puts out, as the kernel counts them
    prep,           \* TransactionExecutor::prepare_tx_inputs in progress
    vmres           \* TransactionOutputs::try_from_vm_result on the result of one run of the VM

accountVars == <<account, accountResult>>
vaultVars == <<vault, vaultResult>>
txVars == <<tx>>
adviceVars == <<advice>>
hostVars == <<host>>
execVars == <<exec>>
runVars == <<run>>
batchVars == <<batch>>
blockVars == <<block>>
kernelVars == <<kernel>>
prepVars == <<prep>>
vmresVars == <<vmres>>
vars == <<sys, accountVars, vaultVars, txVars, adviceVars, hostVars, execVars, runVars, batchVars, blockVars, kernelVars, prepVars, vmresVars>>

\* What the operations of one component leave alone.
VaultFrame == UNCHANGED <<sys, accountVars, txVars, adviceVars, hostVars, execVars, runVars, batchVars, blockVars, kernelVars, prepVars, vmresVars>>
AccountFrame == UNCHANGED <<sys, vaultVars, txVars, adviceVars, hostVars, execVars, runVars, batchVars, blockVars, kernelVars, prepVars, vmresVars>>
TxFrame == UNCHANGED <<sys, accountVars, vaultVars, adviceVars, hostVars, execVars, runVars, batchVars, blockVars, kernelVars, prepVars, vmresVars>>
AdviceFrame == UNCHANGED <<sys, accountVars, vaultVars, txVars, hostVars, execVars, runVars, batchVars, blockVars, kernelVars, prepVars, vmresVars>>
HostFrame == UNCHANGED <<sys, accountVars, vaultVars, txVars, adviceVars, execVars, runVars, batchVars, blockVars, kernelVars, prepVars, vmresVars>>
ExecFrame == UNCHANGED <<sys, accountVars, vaultVars, txVars, adviceVars, hostVars, runVars, batchVars, blockVars, kernelVars, prepVars, vmresVars>>
RunFrame == UNCHANGED <<sys, accountVars, vaultVars, txVars, adviceVars, hostVars, execVars, batchVars, blockVars, kernelVars, prepVars, vmresVars>>
BatchFrame == UNCHANGED <<sys, accountVars, vaultVars, txVars, adviceVars, hostVars, execVars, runVars, blockVars, kernelVars, prepVars, vmresVars>>
BlockFrame == UNCHANGED <<sys, accountVars, vaultVars, txVars, adviceVars, hostVars, execVars, runVars, batchVars, kernelVars, prepVars, vmresVars>>
KernelFrame == UNCHANGED <<sys, accountVars, vaultVars, txVars, adviceVars, hostVars, execVars, runVars, batchVars, blockVars, prepVars, vmresVars>>
PrepFrame == UNCHANGED <<sys, accountVars, vaultVars, txVars, adviceVars, hostVars, execVars, runVars, batchVars, blockVars, kernelVars, vmresVars>>
VmResFrame == UNCHANGED <<sys, accountVars, vaultVars, txVars, adviceVars, hostVars, execVars, runVars, batchVars, blockVars, kernelVars, prepVars>>

-----------------------------------------------------------------------------
(* Bounds                                                                  *)

\* Stand-in for Felt::MODULUS (2^64 - 2^32 + 1): felts are 0 .. FieldModulus-1.
FieldModulus == 5

\* Stand-in for FungibleAsset::MAX_AMOUNT (2^63 - 1).
MAX_AMOUNT == 3

Felts == 0 .. (FieldModulus - 1)
ZERO == 0

\* Felt addition: wraps at the modulus.
FeltAdd(a, b) == (a + b) % FieldModulus

Amounts == 0 .. MAX_AMOUNT

\* Fungible faucet ids and non-fungible asset payloads used as inputs.
Faucets == {1, 2}
NonFungibles == {1}

-----------------------------------------------------------------------------
(* Assets and the vault's sparse Merkle tree                               *)

\* Smt::EMPTY_VALUE, the all-zero word: "no asset under this key".
EMPTY_VALUE == [kind |-> "empty", id |-> 0, amount |-> 0]

\* A fungible asset word holds the faucet id next to the amount, so it differs
\* from EMPTY_VALUE even when the amount is 0.
FungibleAsset(faucet, amount) == [kind |-> "fungible", id |-> faucet, amount |-> amount]
NonFungibleAsset(payload) == [kind |-> "non_fungible", id |-> payload, amount |-> 0]

FungibleAssets == {FungibleAsset(f, a) : f \in Faucets, a \in Amounts}
NonFungibleAssets == {NonFungibleAsset(n) : n \in NonFungibles}
Assets == FungibleAssets \cup NonFungibleAssets

\* Asset::vault_key: the faucet id for a fungible asset, the asset itself
\* for a non-fungible one.
VaultKeyOf(asset) == <<asset.kind, asset.id>>
VaultKeys == {VaultKeyOf(a) : a \in Assets}

\* The keys used here fall into distinct leaves, so Smt::insert never
\* reports MaxLeafEntriesExceeded.
SmtGetValue(tree, key) == tree[key]
SmtInsert(tree, key, value) == [tree EXCEPT ![key] = value]
EmptySmt == [k \in VaultKeys |-> EMPTY_VALUE]

\* Smt::root: a commitment to exactly the non-empty entries.
SmtRoot(tree) == {<<k, tree[k]>> : k \in {x \in DOMAIN tree : tree[x] # EMPTY_VALUE}}

\* AssetVault::root
VaultRoot(v) == SmtRoot(v)

\* AssetVault::get_balance
GetBalance(v, faucet) ==
    LET value == SmtGetValue(v, <<"fungible", faucet>>)
    IN IF value = EMPTY_VALUE THEN 0 ELSE value.amount

Ok(v, ret) == [ok |-> TRUE, err |-> "none", vault |-> v, ret |-> ret]
Err(v, e) == [ok |-> FALSE, err |-> e, vault |-> v, ret |-> EMPTY_VALUE]

\* FungibleAsset::add: the sum must not exceed MAX_AMOUNT.
FungibleAssetAdd(current, other) ==
    IF current.id # other.id
    THEN [ok |-> FALSE, asset |-> current]
    ELSE IF current.amount + other.amount > MAX_AMOUNT
         THEN [ok |-> FALSE, asset |-> current]
         ELSE [ok |-> TRUE, asset |-> FungibleAsset(current.id, current.amount + other.amount)]

\* FungibleAsset::sub: the subtrahend must not exceed the amount.
FungibleAssetSub(current, other) ==
    IF current.id # other.id
    THEN [ok |-> FALSE, asset |-> current]
    ELSE IF current.amount < other.amount
         THEN [ok |-> FALSE, asset |-> current]
         ELSE [ok |-> TRUE, asset |-> FungibleAsset(current.id, current.amount - other.amount)]

\* Faulty add_fungible_asset: stores the sum without looking at the result of
\* FungibleAsset::add.
add_fungible_asset_unchecked(v, asset) ==
    LET current == SmtGetValue(v, VaultKeyOf(asset))
        total == FungibleAsset(asset.id, current.amount + asset.amount)
    IN IF current = EMPTY_VALUE
       THEN Ok(SmtInsert(v, VaultKeyOf(asset), asset), asset)
       ELSE Ok(SmtInsert(v, VaultKeyOf(asset), total), total)

\* AssetVault::add_fungible_asset
add_fungible_asset(v, asset) ==
    LET current == SmtGetValue(v, VaultKeyOf(asset))
        sum == FungibleAssetAdd(current, asset)
    IN IF current = EMPTY_VALUE
       THEN Ok(SmtInsert(v, VaultKeyOf(asset), asset), asset)
       ELSE IF ~sum.ok
            THEN Err(v, "AddFungibleAssetBalanceError")
            ELSE Ok(SmtInsert(v, VaultKeyOf(sum.asset), sum.asset), sum.asset)

\* AssetVault::add_non_fungible_asset: inserts first, then looks at the old value.
add_non_fungible_asset(v, asset) ==
    LET old == SmtGetValue(v, VaultKeyOf(asset))
        inserted == SmtInsert(v, VaultKeyOf(asset), asset)
    IN IF old # EMPTY_VALUE
       THEN Err(inserted, "DuplicateNonFungibleAsset")
       ELSE Ok(inserted, asset)

\* AssetVault::add_asset
add_asset(v, asset) ==
    IF asset.kind = "fungible"
    THEN add_fungible_asset(v, asset)
    ELSE add_non_fungible_asset(v, asset)

\* Faulty remove_fungible_asset: a missing entry is read as a balance of zero.
remove_fungible_asset_absent_as_zero(v, asset) ==
    LET found == SmtGetValue(v, VaultKeyOf(asset))
        current == IF found = EMPTY_VALUE THEN FungibleAsset(asset.id, 0) ELSE found
        diff == FungibleAssetSub(current, asset)
        value == IF diff.asset.amount = 0 THEN EMPTY_VALUE ELSE diff.asset
    IN IF ~diff.ok
       THEN Err(v, "SubtractFungibleAssetBalanceError")
       ELSE Ok(SmtInsert(v, VaultKeyOf(diff.asset), value), asset)

\* Faulty remove_fungible_asset: the entry is cleared before the amounts are
\* compared.
remove_fungible_asset_clears_first(v, asset) ==
    LET current == SmtGetValue(v, VaultKeyOf(asset))
        diff == FungibleAssetSub(current, asset)
        value == IF diff.asset.amount = 0 THEN EMPTY_VALUE ELSE diff.asset
        cleared == SmtInsert(v, VaultKeyOf(asset), EMPTY_VALUE)
    IN IF current = EMPTY_VALUE
       THEN Err(v, "FungibleAssetNotFound")
       ELSE IF ~diff.ok
            THEN Err(cleared, "SubtractFungibleAssetBalanceError")
            ELSE Ok(SmtInsert(v, VaultKeyOf(diff.asset), value), asset)

\* AssetVault::remove_fungible_asset
remove_fungible_asset(v, asset) ==
    LET current == SmtGetValue(v, VaultKeyOf(asset))
        diff == FungibleAssetSub(current, asset)
        value == IF diff.asset.amount = 0 THEN EMPTY_VALUE ELSE diff.asset
    IN IF current = EMPTY_VALUE
       THEN Err(v, "FungibleAssetNotFound")
       ELSE IF ~diff.ok
            THEN Err(v, "SubtractFungibleAssetBalanceError")
            ELSE Ok(SmtInsert(v, VaultKeyOf(diff.asset), value), asset)

\* AssetVault::remove_non_fungible_asset: inserts the empty value first.
remove_non_fungible_asset(v, asset) ==
    LET old == SmtGetValue(v, VaultKeyOf(asset))
        removed == SmtInsert(v, VaultKeyOf(asset), EMPTY_VALUE)
    IN IF old = EMPTY_VALUE
       THEN Err(removed, "NonFungibleAssetNotFound")
       ELSE Ok(removed, asset)

\* AssetVault::remove_asset
remove_asset(v, asset) ==
    IF asset.kind = "fungible"
    THEN remove_fungible_asset(v, asset)
    ELSE remove_non_fungible_asset(v, asset)

-----------------------------------------------------------------------------
(* AccountVaultDelta and AssetVault::apply_delta                           *)

Abs(n) == IF n < 0 THEN -n ELSE n

\* The elements of a finite set of integers in ascending order (the iteration
\* order of a BTreeMap keyed by them).
RECURSIVE Ascending(_)
Ascending(S) ==
    IF S = {} THEN <<>>
    ELSE LET m == CHOOSE x \in S : \A y \in S : x <= y
         IN <<m>> \o Ascending(S \ {m})

\* Signed amounts an AccountVaultDelta can hold for a faucet: their absolute
\* value is a valid fungible amount.
DeltaAmounts == (0 - MAX_AMOUNT) .. MAX_AMOUNT

\* AccountVaultDelta: faucet |-> signed amount, and asset |-> Add / Remove.
VaultDeltasOver(faucets, payloads) ==
    {[fungible |-> f, non_fungible |-> n] :
        f \in UNION {[S -> DeltaAmounts] : S \in SUBSET faucets},
        n \in UNION {[S -> {"Add", "Remove"}] : S \in SUBSET payloads}}

VaultDeltaIsEmpty(d) == DOMAIN d.fungible = {} /\ DOMAIN d.non_fungible = {}

\* The first loop of AssetVault::apply_delta; stops at the first error and keeps
\* what was applied before it.
RECURSIVE ApplyFungibleDelta(_, _, _)
ApplyFungibleDelta(v, fungible, faucets) ==
    IF faucets = <<>> THEN Ok(v, EMPTY_VALUE)
    ELSE LET faucet == Head(faucets)
             delta == fungible[faucet]
             asset == FungibleAsset(faucet, Abs(delta))
             r == IF delta >= 0 THEN add_fungible_asset(v, asset)
                  ELSE remove_fungible_asset(v, asset)
         IN IF ~r.ok THEN r ELSE ApplyFungibleDelta(r.vault, fungible, Tail(faucets))

\* The second loop of AssetVault::apply_delta.
RECURSIVE ApplyNonFungibleDelta(_, _, _)
ApplyNonFungibleDelta(v, non_fungible, payloads) ==
    IF payloads = <<>> THEN Ok(v, EMPTY_VALUE)
    ELSE LET payload == Head(payloads)
             asset == NonFungibleAsset(payload)
             r == IF non_fungible[payload] = "Add" THEN add_non_fungible_asset(v, asset)
                  ELSE remove_non_fungible_asset(v, asset)
         IN IF ~r.ok THEN r ELSE ApplyNonFungibleDelta(r.vault, non_fungible, Tail(payloads))

\* AssetVault::apply_delta
vault_apply_delta(v, delta) ==
    LET f == ApplyFungibleDelta(v, delta.fungible, Ascending(DOMAIN delta.fungible))
    IN IF ~f.ok THEN f
       ELSE ApplyNonFungibleDelta(f.vault, delta.non_fungible,
                                  Ascending(DOMAIN delta.non_fungible))

-----------------------------------------------------------------------------
(* The stand-alone AssetVault                                              *)

NoVaultResult == [op |-> "none", ok |-> TRUE, err |-> "none", arg |-> EMPTY_VALUE,
                  before |-> EmptySmt]

\* What an operation returned, the argument it was called with and the vault
\* it was called on.
VaultOutcome(op, r, arg, before) ==
    [op |-> op, ok |-> r.ok, err |-> r.err, arg |-> arg, before |-> before]

VaultIdle ==
    /\ vault = EmptySmt
    /\ vaultResult = NoVaultResult

\* vault.add_asset(asset)
AddAsset(asset) ==
    LET r == add_asset(vault, asset)
    IN /\ sys = "vault"
       /\ vault' = r.vault
       /\ vaultResult' = VaultOutcome("add_asset", r, asset, vault)
       /\ VaultFrame

\* vault.remove_asset(asset)
RemoveAsset(asset) ==
    LET r == remove_asset(vault, asset)
    IN /\ sys = "vault"
       /\ vault' = r.vault
       /\ vaultResult' = VaultOutcome("remove_asset", r, asset, vault)
       /\ VaultFrame

\* vault.apply_delta(delta)
VaultApplyDelta(delta) ==
    LET r == vault_apply_delta(vault, delta)
    IN /\ sys = "vault"
       /\ vault' = r.vault
       /\ vaultResult' = VaultOutcome("apply_delta", r, EMPTY_VALUE, vault)
       /\ VaultFrame

NextVault ==
    \/ \E asset \in Assets : AddAsset(asset)
    \/ \E asset \in Assets : RemoveAsset(asset)
    \/ \E delta \in VaultDeltasOver(Faucets, NonFungibles) : VaultApplyDelta(delta)

-----------------------------------------------------------------------------
(* Account                                                                 *)

None == [some |-> FALSE, word |-> "none"]
Some(w) == [some |-> TRUE, word |-> w]

\* Seeds offered to the constructor. GrindFailSeed hashes to a digest without
\* the required trailing zeros, so AccountId::new rejects it.
Seeds == {"seed1", "seed2", "seed_invalid"}
GrindFailSeed == "seed_invalid"

\* The code commitment of the account under test (code is never mutated).
CodeCommitment == <<"code">>

\* AccountStorage: one value slot; its commitment is the hash of the header.
StorageValues == {0, 1}
StorageCommitment(storage) == <<"storage", storage>>

\* AccountId::new(seed, version, code_commitment, storage_commitment): the id
\* is derived from the digest of its inputs.
AccountIdNew(seed, code_commitment, storage_commitment) ==
    IF seed = GrindFailSeed
    THEN [ok |-> FALSE, id |-> <<>>]
    ELSE [ok |-> TRUE, id |-> <<seed, code_commitment, storage_commitment>>]

\* The id the constructor is called with.
TestAccountId == AccountIdNew("seed1", CodeCommitment, StorageCommitment(0)).id

\* validate_account_seed: "none" or the AccountError it returns.
validate_account_seed(id, code_commitment, storage_commitment, seed, nonce) ==
    LET account_is_new == (nonce = ZERO)
        derived == AccountIdNew(seed.word, code_commitment, storage_commitment)
    IN CASE account_is_new /\ seed.some ->
                IF ~derived.ok THEN "SeedConvertsToInvalidAccountId"
                ELSE IF derived.id # id THEN "AccountIdSeedMismatch"
                ELSE "none"
         [] account_is_new /\ ~seed.some -> "NewAccountMissingSeed"
         [] ~account_is_new /\ seed.some -> "ExistingAccountWithSeed"
         [] OTHER -> "none"

NoAccount == [exists |-> FALSE, id |-> TestAccountId, vault |-> EmptySmt, storage |-> 0,
              nonce |-> 0, seed |-> None]

\* Account::new_unchecked
new_unchecked(id, v, storage, nonce, seed) ==
    [exists |-> TRUE, id |-> id, vault |-> v, storage |-> storage, nonce |-> nonce,
     seed |-> seed]

\* Account::new: the account, or the validation error.
account_new(id, v, storage, nonce, seed) ==
    LET e == validate_account_seed(id, CodeCommitment, StorageCommitment(storage),
                                   seed, nonce)
    IN [err |-> e, account |-> new_unchecked(id, v, storage, nonce, seed)]

\* Account::is_new
is_new(a) == a.nonce = ZERO

\* Faulty increment_nonce: the seed is never removed.
increment_nonce_keeps_seed(a, nonce_delta) ==
    LET new_nonce == FeltAdd(a.nonce, nonce_delta)
    IN IF new_nonce < a.nonce
       THEN [err |-> "NonceOverflow", account |-> a]
       ELSE [err |-> "none", account |-> [a EXCEPT !.nonce = new_nonce]]

\* Faulty increment_nonce: the wrapped sum is stored without the overflow check.
increment_nonce_unchecked(a, nonce_delta) ==
    LET stored == [a EXCEPT !.nonce = FeltAdd(a.nonce, nonce_delta)]
    IN [err |-> "none",
        account |-> IF stored.nonce # ZERO THEN [stored EXCEPT !.seed = None] ELSE stored]

\* Account::increment_nonce: the resulting account and "none" or the error.
increment_nonce(a, nonce_delta) ==
    LET new_nonce == FeltAdd(a.nonce, nonce_delta)
        stored == [a EXCEPT !.nonce = new_nonce]
    IN IF new_nonce < a.nonce
       THEN [err |-> "NonceOverflow", account |-> a]
       ELSE [err |-> "none",
             account |-> IF ~is_new(stored) THEN [stored EXCEPT !.seed = None]
                         ELSE stored]

\* AccountStorageDelta for the one-slot storage: slot index |-> new value.
\* Index 1 does not exist.
StorageDeltas == UNION {[S -> StorageValues] : S \in {{}, {0}, {1}}}

StorageDeltaIsEmpty(d) == DOMAIN d = {}

\* AccountStorage::apply_delta: replaces value slots; a slot index out of
\* bounds is an error.
storage_apply_delta(storage, delta) ==
    IF \E i \in DOMAIN delta : i # 0
    THEN [err |-> "StorageIndexOutOfBounds", storage |-> storage]
    ELSE [err |-> "none", storage |-> IF 0 \in DOMAIN delta THEN delta[0] ELSE storage]

\* AccountDelta as Account::apply_delta reads it; its vault part changes the
\* fungible asset of one faucet or the non-fungible assets.
AccountDeltas ==
    {[vault |-> v, storage |-> s, nonce_delta |-> n] :
        v \in VaultDeltasOver({1}, {}) \cup VaultDeltasOver({}, NonFungibles),
        s \in StorageDeltas, n \in Felts}

\* Faulty apply_delta: the nonce increment is left out.
apply_delta_without_nonce(a, delta) ==
    LET v == vault_apply_delta(a.vault, delta.vault)
        a1 == [a EXCEPT !.vault = v.vault]
        s == storage_apply_delta(a1.storage, delta.storage)
        a2 == [a1 EXCEPT !.storage = s.storage]
    IN IF ~v.ok THEN [err |-> "AssetVaultUpdateError", account |-> a1]
       ELSE [err |-> s.err, account |-> a2]

\* Account::apply_delta: vault, then storage, then nonce; `?` returns at the
\* first error with the parts already updated left as they are.
apply_delta(a, delta) ==
    LET v == vault_apply_delta(a.vault, delta.vault)
        a1 == [a EXCEPT !.vault = v.vault]
        s == storage_apply_delta(a1.storage, delta.storage)
        a2 == [a1 EXCEPT !.storage = s.storage]
        n == increment_nonce(a2, delta.nonce_delta)
    IN IF ~v.ok THEN [err |-> "AssetVaultUpdateError", account |-> a1]
       ELSE IF s.err # "none" THEN [err |-> s.err, account |-> a2]
       ELSE n

\* Account bytes: id, vault, storage, code, nonce, then the seed as an
\* Option (a tag byte, and the word when the tag is 1).
AccountBytes ==
    {<<TestAccountId, EmptySmt, storage, CodeCommitment, nonce, tag, word>> :
        storage \in StorageValues, nonce \in Felts, tag \in {0, 1}, word \in Seeds}

\* <Option<Word>>::read_from
ReadOptionWord(tag, word) == IF tag = 1 THEN Some(word) ELSE None

NoAccountResult == [op |-> "none", err |-> "none", increment |-> 0]
AccountOutcome(op, err, increment) == [op |-> op, err |-> err, increment |-> increment]

AccountIdle ==
    /\ account = NoAccount
    /\ accountResult = NoAccountResult

\* Vaults an account is constructed with.
InitialVaults == {EmptySmt, SmtInsert(EmptySmt, <<"fungible", 1>>, FungibleAsset(1, 1))}

\* Account::new(id, vault, storage, code, nonce, seed)
AccountNew(v, storage, nonce, seed) ==
    LET r == account_new(TestAccountId, v, storage, nonce, seed)
    IN /\ sys = "account"
       /\ account' = IF r.err = "none" THEN r.account ELSE account
       /\ accountResult' = AccountOutcome("new", r.err, 0)
       /\ AccountFrame

\* Account::read_from(bytes)
AccountReadFrom(bytes) ==
    LET r == account_new(bytes[1], bytes[2], bytes[3], bytes[5],
                         ReadOptionWord(bytes[6], bytes[7]))
    IN /\ sys = "account"
       /\ account' = IF r.err = "none" THEN r.account ELSE account
       /\ accountResult' = AccountOutcome("read_from",
                               IF r.err = "none" THEN "none" ELSE "InvalidValue", 0)
       /\ AccountFrame

\* account.increment_nonce(nonce_delta)
IncrementNonce(nonce_delta) ==
    LET r == increment_nonce(account, nonce_delta)
    IN /\ sys = "account"
       /\ account.exists
       /\ account' = r.account
       /\ accountResult' = AccountOutcome("increment_nonce", r.err, nonce_delta)
       /\ AccountFrame

\* account.apply_delta(delta)
ApplyDelta(delta) ==
    LET r == apply_delta(account, delta)
    IN /\ sys = "account"
       /\ account.exists
       /\ account' = r.account
       /\ accountResult' = AccountOutcome("apply_delta", r.err, delta.nonce_delta)
       /\ AccountFrame

NextAccount ==
    \/ \E v \in InitialVaults, storage \in StorageValues, nonce \in Felts,
          seed \in {None} \cup {Some(w) : w \in Seeds} :
            AccountNew(v, storage, nonce, seed)
    \/ \E bytes \in AccountBytes : AccountReadFrom(bytes)
    \/ \E nonce_delta \in Felts : IncrementNonce(nonce_delta)
    \/ \E delta \in AccountDeltas : ApplyDelta(delta)

-----------------------------------------------------------------------------
(* Transaction execution and the account delta it produces                 *)

NONCE_CHECK_ERROR == "ERR_ACCOUNT_DELTA_NONCE_MUST_BE_INCREMENTED_IF_VAULT_OR_STORAGE_CHANGED"

\* The vault delta the event handler has tracked: none yet.
EmptyVaultDelta == [fungible |-> <<>>, non_fungible |-> <<>>]

\* The faucet whose asset the transaction script moves.
TxFaucet == 1

\* The event handler's tracker after the account's vault gained (amount > 0)
\* or lost (amount < 0) units of TxFaucet's asset: amounts net out, and a
\* faucet whose net amount is 0 is dropped.
TrackVaultChange(delta, amount) ==
    LET old == IF TxFaucet \in DOMAIN delta.fungible THEN delta.fungible[TxFaucet] ELSE 0
        new == old + amount
    IN [delta EXCEPT !.fungible = IF new = 0 THEN <<>> ELSE [f \in {TxFaucet} |-> new]]

\* The account delta validation of AccountDelta::new: a delta that changes
\* storage or vault needs a nonce, and that nonce is not zero.
AccountDeltaNew(storage_delta, vault_delta, nonce_delta) ==
    LET non_empty == ~StorageDeltaIsEmpty(storage_delta) \/ ~VaultDeltaIsEmpty(vault_delta)
        delta == [storage |-> storage_delta, vault |-> vault_delta, nonce |-> nonce_delta]
    IN IF non_empty /\ (~nonce_delta.some \/ nonce_delta.word = ZERO)
       THEN [ok |-> FALSE, delta |-> delta]
       ELSE [ok |-> TRUE, delta |-> delta]

\* extract_account_storage_delta: the slots whose final value differs from the
\* initial one.
extract_account_storage_delta(initial_account, final_account) ==
    IF initial_account.storage # final_account.storage
    THEN [i \in {0} |-> final_account.storage]
    ELSE <<>>

\* Faulty epilogue: the nonce is not looked at.
epilogue_without_nonce_check(initial_account, final_account, vault_delta) == "none"

\* The kernel epilogue's check: "none", or the error it halts with when the
\* account's vault or storage changed and the nonce was not incremented.
epilogue_nonce_check(initial_account, final_account, vault_delta) ==
    LET changed == \/ initial_account.storage # final_account.storage
                   \/ ~VaultDeltaIsEmpty(vault_delta)
    IN IF changed /\ final_account.nonce = initial_account.nonce
       THEN NONCE_CHECK_ERROR
       ELSE "none"

\* build_executed_transaction: the account delta of the executed transaction,
\* or a panic from `expect("invalid account delta")`.
build_executed_transaction(initial_account, final_account, vault_delta) ==
    LET storage_delta == extract_account_storage_delta(initial_account, final_account)
        nonce_delta == IF initial_account.nonce # final_account.nonce
                       THEN Some(final_account.nonce)
                       ELSE None
        account_delta == AccountDeltaNew(storage_delta, vault_delta, nonce_delta)
    IN IF ~account_delta.ok
       THEN [err |-> "panic: invalid account delta", delta |-> account_delta.delta]
       ELSE [err |-> "none", delta |-> account_delta.delta]

AccountStates == [nonce : Felts, storage : StorageValues]

NoDelta == [storage |-> <<>>, vault |-> EmptyVaultDelta, nonce |-> None]

\* A transaction about to run on initial_account.
LoadedTx(initial_account) ==
    [phase |-> "executing", initial_account |-> initial_account,
     final_account |-> initial_account, vault_delta |-> EmptyVaultDelta,
     err |-> "none", account_delta |-> NoDelta]

NoTx == [LoadedTx([nonce |-> 0, storage |-> 0]) EXCEPT !.phase = "idle"]

TxIdle == tx = NoTx

\* The script calls account::set_item on slot 0.
TxSetItem(value) ==
    /\ sys = "tx"
    /\ tx.phase = "executing"
    /\ tx' = [tx EXCEPT !.final_account.storage = value]
    /\ TxFrame

\* The script adds an asset to, or removes one from, the account's vault; the
\* event handler tracks the change.
TxVaultChange(amount) ==
    LET tracked == TrackVaultChange(tx.vault_delta, amount)
    IN /\ sys = "tx"
       /\ tx.phase = "executing"
       /\ amount # 0
       /\ \A f \in DOMAIN tracked.fungible : tracked.fungible[f] \in DeltaAmounts
       /\ tx' = [tx EXCEPT !.vault_delta = tracked]
       /\ TxFrame

NONCE_ONCE_ERROR == "ERR_ACCOUNT_NONCE_CAN_ONLY_BE_INCREMENTED_ONCE"

\* Faulty incr_nonce: the nonce is incremented as often as it is called.
incr_nonce_repeatable(initial_nonce, nonce) == [err |-> "none", nonce |-> nonce + 1]

\* account::incr_nonce: the nonce of the transaction's account is incremented,
\* unless it was incremented before in this transaction.
incr_nonce(initial_nonce, nonce) ==
    IF nonce # initial_nonce
    THEN [err |-> NONCE_ONCE_ERROR, nonce |-> nonce]
    ELSE [err |-> "none", nonce |-> nonce + 1]

\* The script (or the authentication procedure) calls account::incr_nonce.
TxIncrNonce ==
    LET r == incr_nonce(tx.initial_account.nonce, tx.final_account.nonce)
    IN /\ sys = "tx"
       /\ tx.phase = "executing"
       /\ tx.final_account.nonce + 1 < FieldModulus
       /\ tx' = [tx EXCEPT !.final_account.nonce = r.nonce,
                           !.phase = IF r.err = "none" THEN @ ELSE "failed",
                           !.err = r.err]
       /\ TxFrame

\* The kernel epilogue: the program halts, with an error when the nonce check
\* fails.
TxEpilogue ==
    LET e == epilogue_nonce_check(tx.initial_account, tx.final_account, tx.vault_delta)
    IN /\ sys = "tx"
       /\ tx.phase = "executing"
       /\ tx' = [tx EXCEPT !.phase = IF e = "none" THEN "halted" ELSE "failed", !.err = e]
       /\ TxFrame

\* The executor builds the executed transaction from the halted program's
\* outputs.
BuildExecutedTransaction ==
    LET r == build_executed_transaction(tx.initial_account, tx.final_account,
                                        tx.vault_delta)
    IN /\ sys = "tx"
       /\ tx.phase = "halted"
       /\ tx' = [tx EXCEPT !.phase = IF r.err = "none" THEN "built" ELSE "failed",
                           !.err = r.err,
                           !.account_delta = IF r.err = "none" THEN r.delta ELSE @]
       /\ TxFrame

NextTx ==
    \/ \E value \in StorageValues : TxSetItem(value)
    \/ \E amount \in DeltaAmounts : TxVaultChange(amount)
    \/ TxIncrNonce
    \/ TxEpilogue
    \/ BuildExecutedTransaction

-----------------------------------------------------------------------------
(* TransactionAdviceInputs::new: building the advice map and stack         *)

\* Input notes and foreign accounts a transaction brings at most.
MaxNotes == 2
MaxForeign == 1

\* Advice-map keys. Commitment keys are hashes of what they map to; the
\* account-id key is built from the id alone.
AccountKey(acct, part) == <<acct, part>>
AccountParts == {"code", "storage", "storage_leaf", "vault_leaf", "id", "witness_leaf"}
TxKeys == {<<"tx", "kernel">>, <<"tx", "mmr_peaks">>, <<"tx", "note_inputs">>,
           <<"tx", "note_assets">>, <<"tx", "input_notes">>}
\* Keys that scripts, account code and user-supplied advice choose freely.
UserKeys == {<<"user", "key">>, AccountKey("native", "id"), AccountKey("native", "code")}
AdviceKeys ==
    TxKeys \cup {AccountKey(a, p) : a \in {"native", "foreign"}, p \in AccountParts}
           \cup UserKeys

NoValue == "none"
AdviceValues == {"v1", "v2"}

\* The data a commitment key stands for.
Content(key) == "v1"

EmptyAdviceMap == [k \in AdviceKeys |-> NoValue]
Entry(key, value) == [EmptyAdviceMap EXCEPT ![key] = value]
\* The commitment entries for `keys`.
Entries(keys) == [k \in AdviceKeys |-> IF k \in keys THEN Content(k) ELSE NoValue]

\* Advice maps that a script's or an account code's MAST forest, or the user,
\* can carry.
UserMaps ==
    {[k \in AdviceKeys |-> IF k \in UserKeys THEN m[k] ELSE NoValue] :
        m \in [UserKeys -> AdviceValues \cup {NoValue}]}

\* extend_map: "replacing previously inserted items".
extend_map(map, entries) ==
    [k \in AdviceKeys |-> IF entries[k] # NoValue THEN entries[k] ELSE map[k]]

add_map_entry(map, key, values) == extend_map(map, Entry(key, values))

\* Keys on which `other` disagrees with `map`.
ConflictingEntries(map, other) ==
    {k \in AdviceKeys : map[k] # NoValue /\ other[k] # NoValue /\ map[k] # other[k]}

\* Faulty merge: behaves like extend.
merge_last_writer_wins(map, other) ==
    [ok |-> TRUE, map |-> extend_map(map, other), conflicts |-> {}]

\* AdviceMap::merge: all of `other` is added, or nothing is when an entry of
\* `other` disagrees with an existing one.
merge(map, other) ==
    LET conflicts == ConflictingEntries(map, other)
    IN IF conflicts # {}
       THEN [ok |-> FALSE, map |-> map, conflicts |-> conflicts]
       ELSE [ok |-> TRUE, map |-> extend_map(map, other), conflicts |-> {}]

NoMismatch == [kind |-> "none", key |-> <<"none", "none">>, existing_val |-> NoValue,
               incoming_val |-> NoValue]

\* TransactionAdviceMapMismatch, as prepare_transaction reports it.
ConflictingAdviceMapEntry(key, existing_val, incoming_val) ==
    [kind |-> "ConflictingAdviceMapEntry", key |-> key, existing_val |-> existing_val,
     incoming_val |-> incoming_val]

\* Words. A commitment is a word of four felts, here told apart by `n`.
EmptyWord == <<ZERO, ZERO, ZERO, ZERO>>
Hash(n) == <<n, n + 100, n + 200, n + 300>>

\* The transaction inputs build_stack reads: the header of the reference
\* block, the native account, the number of input notes and the transaction
\* arguments.
TxInputsOf(nonce, num_input_notes, has_script) ==
    [block_header |->
         [prev_block_commitment |-> Hash(1), chain_commitment |-> Hash(2),
          account_root |-> Hash(3), nullifier_root |-> Hash(4),
          tx_commitment |-> Hash(5), tx_kernel_commitment |-> Hash(6),
          proof_commitment |-> Hash(7), note_root |-> Hash(8),
          block_num |-> 41, version |-> 42, timestamp |-> 43,
          fee_parameters |-> [native_asset_id |-> [suffix |-> 44, prefix |-> 45],
                              verification_base_fee |-> 46]],
     account |->
         [id |-> [suffix |-> 51, prefix |-> 52], nonce |-> nonce,
          vault_root |-> Hash(9), storage_commitment |-> Hash(10),
          code_commitment |-> Hash(11)],
     num_input_notes |-> num_input_notes,
     tx_args |->
         [tx_script |-> IF has_script THEN Some(Hash(12)) ELSE None,
          tx_script_args |-> Hash(13), auth_args |-> Hash(14)]]

NoTxInputs == TxInputsOf(0, 0, FALSE)

\* The transaction inputs looked at.
AdviceTxInputs ==
    {TxInputsOf(nonce, num_input_notes, has_script) :
        nonce \in {0, 1}, num_input_notes \in 0 .. MaxNotes, has_script \in BOOLEAN}

\* build_stack: block header data.
block_header_data(header) ==
    header.prev_block_commitment \o header.chain_commitment \o header.account_root
        \o header.nullifier_root \o header.tx_commitment \o header.tx_kernel_commitment
        \o header.proof_commitment
        \o <<header.block_num, header.version, header.timestamp, ZERO>>
        \o <<header.fee_parameters.native_asset_id.suffix,
             header.fee_parameters.native_asset_id.prefix,
             header.fee_parameters.verification_base_fee, ZERO>>
        \o <<ZERO, ZERO, ZERO, ZERO>>
        \o header.note_root

\* build_stack: core account items.
core_account_items(acct) ==
    <<acct.id.suffix, acct.id.prefix, ZERO, acct.nonce>>
        \o acct.vault_root \o acct.storage_commitment \o acct.code_commitment

\* build_stack: number of notes, script root and args, auth procedure args.
notes_script_and_args(tx_inputs) ==
    <<tx_inputs.num_input_notes>>
        \o (IF tx_inputs.tx_args.tx_script.some THEN tx_inputs.tx_args.tx_script.word
            ELSE EmptyWord)
        \o tx_inputs.tx_args.tx_script_args
        \o tx_inputs.tx_args.auth_args

\* Faulty layout: a kernel version is pushed after the note root, as the list
\* in the doc comment of build_stack has it.
build_stack_with_kernel_version(stack, tx_inputs) ==
    stack \o block_header_data(tx_inputs.block_header) \o <<ZERO>>
          \o core_account_items(tx_inputs.account) \o notes_script_and_args(tx_inputs)

\* build_stack: the felts pushed, in order.
build_stack(stack, tx_inputs) ==
    stack \o block_header_data(tx_inputs.block_header)
          \o core_account_items(tx_inputs.account) \o notes_script_and_args(tx_inputs)

add_kernel_commitment(map) ==
    add_map_entry(map, <<"tx", "kernel">>, Content(<<"tx", "kernel">>))

add_partial_blockchain(map) ==
    add_map_entry(map, <<"tx", "mmr_peaks">>, Content(<<"tx", "mmr_peaks">>))

NoAdvice ==
    [pc |-> "idle", map |-> EmptyAdviceMap, stack |-> <<>>, num_notes |-> 0,
     num_foreign |-> 0, account |-> "native", op |-> "none", incoming |-> EmptyAdviceMap,
     seed |-> None, tx_inputs |-> NoTxInputs, err |-> NoMismatch]

AdviceIdle == advice = NoAdvice

\* A step that moves on to `pc` with the map `map`, after writing or merging
\* the entries `incoming`.
AdviceStep(pc, op, map, incoming) ==
    [advice EXCEPT !.pc = pc, !.op = op, !.map = map, !.incoming = incoming]

\* A merge step: moves on to `pc`, or stops with the mismatch of one of the
\* conflicting entries.
MergeStep(pc, op, other) ==
    LET r == merge(advice.map, other)
    IN IF r.ok
       THEN advice' = AdviceStep(pc, op, r.map, other)
       ELSE \E k \in r.conflicts :
               advice' = [AdviceStep("failed", op, r.map, other) EXCEPT
                             !.err = ConflictingAdviceMapEntry(k, advice.map[k], other[k])]

\* new: clone of tx_inputs.advice_inputs, build_stack, add_kernel_commitment,
\* add_partial_blockchain.
AdviceNew(tx_advice_map, tx_inputs) ==
    /\ sys = "advice"
    /\ advice.pc = "new"
    /\ advice' = [AdviceStep("notes", "new",
                     add_partial_blockchain(add_kernel_commitment(tx_advice_map)),
                     Entries({<<"tx", "kernel">>, <<"tx", "mmr_peaks">>}))
                  EXCEPT !.stack = build_stack(<<>>, tx_inputs),
                         !.tx_inputs = tx_inputs]
    /\ AdviceFrame

\* add_input_notes, loop body up to the merge: the note's inputs and assets
\* entries.
AddNoteData ==
    /\ sys = "advice"
    /\ advice.pc = "notes"
    /\ advice.num_notes < advice.tx_inputs.num_input_notes
    /\ advice' = [AdviceStep("note_script", "add_map_entry",
                     add_map_entry(
                         add_map_entry(advice.map, <<"tx", "note_inputs">>,
                                       Content(<<"tx", "note_inputs">>)),
                         <<"tx", "note_assets">>, Content(<<"tx", "note_assets">>)),
                     Entries({<<"tx", "note_inputs">>, <<"tx", "note_assets">>}))
                  EXCEPT !.num_notes = @ + 1]
    /\ AdviceFrame

\* add_input_notes, end of the loop body: merge of the note script's advice map.
MergeNoteScript(script_map) ==
    /\ sys = "advice"
    /\ advice.pc = "note_script"
    /\ MergeStep("notes", "merge", script_map)
    /\ AdviceFrame

\* add_input_notes, after the loop: the input notes commitment entry (nothing
\* when there are no input notes).
FinishInputNotes ==
    /\ sys = "advice"
    /\ advice.pc = "notes"
    /\ advice.num_notes = advice.tx_inputs.num_input_notes
    /\ advice' = AdviceStep("tx_script", "add_map_entry",
                    IF advice.num_notes = 0 THEN advice.map
                    ELSE add_map_entry(advice.map, <<"tx", "input_notes">>,
                                       Content(<<"tx", "input_notes">>)),
                    IF advice.num_notes = 0 THEN EmptyAdviceMap
                    ELSE Entries({<<"tx", "input_notes">>}))
    /\ AdviceFrame

\* new: the transaction script's advice map, when there is a script.
AddTxScript(has_script, script_map) ==
    /\ sys = "advice"
    /\ advice.pc = "tx_script"
    /\ has_script = advice.tx_inputs.tx_args.tx_script.some
    /\ ~has_script => script_map = EmptyAdviceMap
    /\ advice' = AdviceStep("account_code", "extend_map",
                    IF has_script THEN extend_map(advice.map, script_map) ELSE advice.map,
                    script_map)
    /\ AdviceFrame

\* add_account: the code commitment entry.
AddAccountCode ==
    LET key == AccountKey(advice.account, "code")
    IN /\ sys = "advice"
       /\ advice.pc = "account_code"
       /\ advice' = AdviceStep("account_code_map", "add_map_entry",
                       add_map_entry(advice.map, key, Content(key)), Entries({key}))
       /\ AdviceFrame

\* add_account: merge of the account code's advice map.
MergeAccountCode(code_map) ==
    /\ sys = "advice"
    /\ advice.pc = "account_code_map"
    /\ MergeStep("account_state", "merge", code_map)
    /\ AdviceFrame

\* add_account: storage commitment, storage map leaves, vault leaves.
AddAccountState ==
    LET storage == AccountKey(advice.account, "storage")
        storage_leaf == AccountKey(advice.account, "storage_leaf")
        vault_leaf == AccountKey(advice.account, "vault_leaf")
        m1 == add_map_entry(advice.map, storage, Content(storage))
        m2 == extend_map(m1, Entry(storage_leaf, Content(storage_leaf)))
        m3 == extend_map(m2, Entry(vault_leaf, Content(vault_leaf)))
    IN /\ sys = "advice"
       /\ advice.pc = "account_state"
       /\ advice' = AdviceStep(IF advice.account = "native" THEN "seed"
                               ELSE "foreign_witness",
                               "extend_map", m3,
                               Entries({storage, storage_leaf, vault_leaf}))
       /\ AdviceFrame

\* account_id_map_key: [id.suffix, id.prefix, ZERO, ZERO], a key built from the
\* id alone.
account_id_map_key(id) == AccountKey(id, "id")

\* Faulty seed step: the seed is not written.
add_seed_skipped(map, seed) == map

\* new: ACCOUNT_ID |-> ACCOUNT_SEED when the native account has a seed.
add_seed(map, seed) ==
    IF seed.some THEN add_map_entry(map, account_id_map_key("native"), seed.word)
    ELSE map

AddSeed(has_seed, seed) ==
    LET account_seed == IF has_seed THEN Some(seed) ELSE None
    IN /\ sys = "advice"
       /\ advice.pc = "seed"
       /\ advice' = [AdviceStep("foreign", "add_map_entry",
                        add_seed(advice.map, account_seed),
                        IF has_seed THEN Entry(account_id_map_key("native"), seed)
                        ELSE EmptyAdviceMap)
                     EXCEPT !.seed = account_seed]
       /\ AdviceFrame

\* add_foreign_accounts: the next foreign account enters add_account.
BeginForeignAccount ==
    /\ sys = "advice"
    /\ advice.pc = "foreign"
    /\ advice.num_foreign < MaxForeign
    /\ advice' = [advice EXCEPT !.pc = "account_code", !.op = "none",
                                !.account = "foreign", !.num_foreign = @ + 1,
                                !.incoming = EmptyAdviceMap]
    /\ AdviceFrame

\* add_foreign_accounts: add_account_witness, then ACCOUNT_ID |-> header.
AddForeignWitness ==
    LET leaf == AccountKey("foreign", "witness_leaf")
        id == AccountKey("foreign", "id")
    IN /\ sys = "advice"
       /\ advice.pc = "foreign_witness"
       /\ advice' = AdviceStep("foreign", "add_map_entry",
                       add_map_entry(add_map_entry(advice.map, leaf, Content(leaf)),
                                     id, Content(id)),
                       Entries({leaf, id}))
       /\ AdviceFrame

\* new: extend with the user-supplied advice of the transaction arguments.
ExtendAdvice(args_map) ==
    /\ sys = "advice"
    /\ advice.pc = "foreign"
    /\ advice' = AdviceStep("done", "extend", extend_map(advice.map, args_map), args_map)
    /\ AdviceFrame

NextAdvice ==
    \/ \E m \in UserMaps, tx_inputs \in AdviceTxInputs : AdviceNew(m, tx_inputs)
    \/ AddNoteData
    \/ \E m \in UserMaps : MergeNoteScript(m)
    \/ FinishInputNotes
    \/ \E has_script \in BOOLEAN, m \in UserMaps : AddTxScript(has_script, m)
    \/ AddAccountCode
    \/ \E m \in UserMaps : MergeAccountCode(m)
    \/ AddAccountState
    \/ \E has_seed \in BOOLEAN, seed \in AdviceValues : AddSeed(has_seed, seed)
    \/ BeginForeignAccount
    \/ AddForeignWitness
    \/ \E m \in UserMaps : ExtendAdvice(m)

-----------------------------------------------------------------------------
(* TransactionExecutorHost: the fee event                                  *)

\* The faucet of the chain's native asset, in which fees are paid.
NativeAssetId == TxFaucet

\* AssetWitness for `key` against the vault: the leaf's asset (or the empty
\* value) together with its Merkle path.
AssetWitness(v, key) == [key |-> key, value |-> SmtGetValue(v, key), root |-> VaultRoot(v)]

\* AssetWitness::find
WitnessFind(witness, key) ==
    IF witness.key = key /\ witness.value # EMPTY_VALUE THEN Some(witness.value) ELSE None

\* FungibleAssetDelta::amount
FungibleDeltaAmount(delta, faucet) ==
    IF faucet \in DOMAIN delta.fungible THEN Some(delta.fungible[faucet]) ELSE None

\* asset_witness_to_advice_mutation: the Merkle store and advice map extensions.
asset_witness_to_advice_mutation(witness) ==
    <<[mutation |-> "extend_merkle_store", root |-> witness.root],
      [mutation |-> "extend_map", key |-> witness.key, value |-> witness.value]>>

NoKernelError == [kind |-> "none", account_balance |-> 0, tx_fee |-> 0]
InsufficientFee(account_balance, tx_fee) ==
    [kind |-> "InsufficientFee", account_balance |-> account_balance, tx_fee |-> tx_fee]

HostOk(mutations) == [err |-> NoKernelError, mutations |-> mutations]
HostErr(e) == [err |-> e, mutations |-> <<>>]

\* Faulty fee handler: the balance is the initial one, the vault delta of the
\* transaction is not applied.
on_before_tx_fee_removed_ignoring_delta(initial_vault, vault_delta, fee_asset, store_ok) ==
    LET asset_witness == AssetWitness(initial_vault, VaultKeyOf(fee_asset))
        found == WitnessFind(asset_witness, VaultKeyOf(fee_asset))
        initial_fee_asset == IF found.some /\ found.word.kind = "fungible" THEN found.word
                             ELSE FungibleAsset(fee_asset.id, 0)
    IN IF ~store_ok
       THEN HostErr([NoKernelError EXCEPT !.kind = "GetVaultAssetWitness"])
       ELSE IF initial_fee_asset.amount < fee_asset.amount
            THEN HostErr(InsufficientFee(initial_fee_asset.amount, fee_asset.amount))
            ELSE HostOk(asset_witness_to_advice_mutation(asset_witness))

\* TransactionExecutorHost::on_before_tx_fee_removed_from_account
on_before_tx_fee_removed_from_account(initial_vault, vault_delta, fee_asset, store_ok) ==
    LET asset_witness == AssetWitness(initial_vault, VaultKeyOf(fee_asset))
        found == WitnessFind(asset_witness, VaultKeyOf(fee_asset))
        initial_fee_asset == IF found.some /\ found.word.kind = "fungible" THEN found.word
                             ELSE FungibleAsset(fee_asset.id, 0)
        tracked == FungibleDeltaAmount(vault_delta, initial_fee_asset.id)
        fee_asset_amount_delta == IF tracked.some THEN tracked.word ELSE 0
        fee_asset_delta == FungibleAsset(initial_fee_asset.id, Abs(fee_asset_amount_delta))
        current_fee_asset == IF fee_asset_amount_delta > 0
                             THEN FungibleAssetAdd(initial_fee_asset, fee_asset_delta)
                             ELSE FungibleAssetSub(initial_fee_asset, fee_asset_delta)
    IN IF ~store_ok
       THEN HostErr([NoKernelError EXCEPT !.kind = "GetVaultAssetWitness"])
       ELSE IF ~current_fee_asset.ok
            THEN HostErr([NoKernelError EXCEPT !.kind = "panic"])
            ELSE IF current_fee_asset.asset.amount < fee_asset.amount
                 THEN HostErr(InsufficientFee(current_fee_asset.asset.amount,
                                              fee_asset.amount))
                 ELSE HostOk(asset_witness_to_advice_mutation(asset_witness))

\* map_execution_error: the executor error a failed event handler surfaces as.
map_execution_error(kernel_err) ==
    CASE kernel_err.kind = "Unauthorized" ->
            [kind |-> "TransactionExecutorError::Unauthorized", account_balance |-> 0,
             tx_fee |-> 0]
      [] kernel_err.kind = "InsufficientFee" ->
            [kind |-> "TransactionExecutorError::InsufficientFee",
             account_balance |-> kernel_err.account_balance, tx_fee |-> kernel_err.tx_fee]
      [] kernel_err.kind = "MissingAuthenticator" ->
            [kind |-> "TransactionExecutorError::MissingAuthenticator",
             account_balance |-> 0, tx_fee |-> 0]
      [] OTHER ->
            [kind |-> "TransactionProgramExecutionFailed", account_balance |-> 0,
             tx_fee |-> 0]

NoExecutorError == [kind |-> "none", account_balance |-> 0, tx_fee |-> 0]

\* Vaults of the initial account: the native asset is absent or held with
\* some amount.
InitialFeeVaults ==
    {EmptySmt} \cup
    {SmtInsert(EmptySmt, <<"fungible", NativeAssetId>>, FungibleAsset(NativeAssetId, a)) :
        a \in Amounts}

NoHost ==
    [pc |-> "idle", initial_vault |-> EmptySmt, vault_delta |-> EmptyVaultDelta,
     fee_asset |-> FungibleAsset(NativeAssetId, 0), store_ok |-> TRUE,
     result |-> HostOk(<<>>), executor_err |-> NoExecutorError]

HostIdle == host = NoHost

\* The balance of the native asset the kernel sees: the initial balance with the
\* tracked vault delta applied.
KernelBalance(h) ==
    GetBalance(h.initial_vault, NativeAssetId)
        + (IF NativeAssetId \in DOMAIN h.vault_delta.fungible
           THEN h.vault_delta.fungible[NativeAssetId] ELSE 0)

\* The kernel adds assets to (amount > 0) or removes assets from (amount < 0) the
\* account's vault and the host's delta tracker follows; the kernel aborts
\* instead of leaving a balance below 0 or above MAX_AMOUNT.
HostVaultChange(amount) ==
    LET tracked == TrackVaultChange(host.vault_delta, amount)
        after == [host EXCEPT !.vault_delta = tracked]
    IN /\ sys = "host"
       /\ host.pc = "executing"
       /\ amount # 0
       /\ KernelBalance(after) \in Amounts
       /\ host' = after
       /\ HostFrame

\* on_event(TransactionFeeComputed { fee_asset })
OnBeforeTxFeeRemovedFromAccount(fee_amount, store_ok) ==
    LET fee_asset == FungibleAsset(NativeAssetId, fee_amount)
        r == on_before_tx_fee_removed_from_account(host.initial_vault, host.vault_delta,
                                                   fee_asset, store_ok)
    IN /\ sys = "host"
       /\ host.pc = "executing"
       /\ host' = [host EXCEPT !.pc = IF r.err.kind = "none" THEN "fee_handled"
                                      ELSE "event_failed",
                               !.fee_asset = fee_asset, !.store_ok = store_ok,
                               !.result = r]
       /\ HostFrame

\* The executor maps the execution error of a failed event.
MapExecutionError ==
    /\ sys = "host"
    /\ host.pc = "event_failed"
    /\ host' = [host EXCEPT !.pc = "reported",
                            !.executor_err = map_execution_error(host.result.err)]
    /\ HostFrame

NextHost ==
    \/ \E amount \in DeltaAmounts : HostVaultChange(amount)
    \/ \E fee_amount \in Amounts, store_ok \in BOOLEAN :
          OnBeforeTxFeeRemovedFromAccount(fee_amount, store_ok)
    \/ MapExecutionError

-----------------------------------------------------------------------------
(* TransactionExecutor::execute_transaction: VM, host and advice provider  *)

\* Bound on the events the VM raises in one transaction.
MaxEvents == 3

PubKey == "pk"
SigningInputs == {"msg1", "msg2"}
Signatures == {"sigA", "sigB"}
ExecFees == {0, 1}
ExecVaultChanges == {0 - 1, 1}
ExecInitialNonces == {0, 1}
ExecInitialVaults ==
    {EmptySmt,
     SmtInsert(EmptySmt, <<"fungible", NativeAssetId>>, FungibleAsset(NativeAssetId, 1))}

\* Signature::to_prepared_signature: the felt vector the kernel verifies.
to_prepared_signature(signature) == <<"prepared", signature>>

\* SigningInputs::to_commitment
SigningInputsCommitment(signing_inputs) == <<"commitment", signing_inputs>>

\* Hasher::merge of two words.
HasherMerge(a, b) == <<"merge", a, b>>

\* BTreeMap::insert / AdviceMap::extend on maps held as functions: an existing
\* key takes the new value.
MapInsert(map, key, value) ==
    [k \in DOMAIN map \cup {key} |-> IF k = key THEN value ELSE map[k]]
MapExtend(map, other) ==
    [k \in DOMAIN map \cup DOMAIN other |-> IF k \in DOMAIN other THEN other[k] ELSE map[k]]
EmptyMap == <<>>

\* Events of the transaction kernel. `msg` carries the signing inputs of an
\* AuthRequest, `n` the fee amount, the vault change or the faucet of the
\* requested asset key.
Event(kind, msg, n) == [kind |-> kind, msg |-> msg, n |-> n]
NoEvent == Event("none", "none", 0)

\* The events a transaction can raise: AccountVaultChange, AccountIncrementNonce
\* and Unauthorized are handled by the base host itself (delta tracking), the
\* others are handed on to the executor host with their data.
VmEvents ==
    {Event("AccountVaultChange", "none", a) : a \in ExecVaultChanges}
    \cup {Event("AccountIncrementNonce", "none", 0), Event("Unauthorized", "none", 0)}
    \cup {Event("AuthRequest", s, 0) : s \in SigningInputs}
    \cup {Event("TransactionFeeComputed", "none", f) : f \in ExecFees}
    \cup {Event("ForeignAccount", "none", 0), Event("AccountStorageMapWitness", "none", 0)}
    \cup {Event("AccountVaultAssetWitness", "none", f) : f \in Faucets}

\* What an event handler returns: advice mutations or a kernel error.
ExtendStack(values) == [mutation |-> "extend_stack", values |-> values]

\* Faulty AuthRequest handler: the signature reaches the advice stack but is not
\* recorded in generated_signatures.
on_auth_requested_unrecorded(h, pub_key_hash, signing_inputs, signed) ==
    IF ~h.authenticator
    THEN [result |-> HostErr([NoKernelError EXCEPT !.kind = "MissingAuthenticator"]),
          generated_signatures |-> h.generated_signatures]
    ELSE IF ~signed.some
         THEN [result |-> HostErr([NoKernelError EXCEPT
                                      !.kind = "SignatureGenerationFailed"]),
               generated_signatures |-> h.generated_signatures]
         ELSE [result |-> HostOk(<<ExtendStack(to_prepared_signature(signed.word))>>),
               generated_signatures |-> h.generated_signatures]

\* Faulty AuthRequest handler: a failed signing still leaves an entry and a
\* push behind.
on_auth_requested_partial(h, pub_key_hash, signing_inputs, signed) ==
    LET signature_key == HasherMerge(pub_key_hash, SigningInputsCommitment(signing_inputs))
        signature == to_prepared_signature(IF signed.some THEN signed.word ELSE "sigA")
    IN IF ~h.authenticator
       THEN [result |-> HostErr([NoKernelError EXCEPT !.kind = "MissingAuthenticator"]),
             generated_signatures |-> h.generated_signatures]
       ELSE IF ~signed.some
            THEN [result |-> [err |-> [NoKernelError EXCEPT
                                          !.kind = "SignatureGenerationFailed"],
                              mutations |-> <<ExtendStack(signature)>>],
                  generated_signatures |->
                      MapInsert(h.generated_signatures, signature_key, signature)]
            ELSE [result |-> HostOk(<<ExtendStack(signature)>>),
                  generated_signatures |->
                      MapInsert(h.generated_signatures, signature_key, signature)]

\* TransactionExecutorHost::on_auth_requested. `signed` is what the
\* authenticator's get_signature returns: a signature or a failure.
on_auth_requested(h, pub_key_hash, signing_inputs, signed) ==
    IF ~h.authenticator
    THEN [result |-> HostErr([NoKernelError EXCEPT !.kind = "MissingAuthenticator"]),
          generated_signatures |-> h.generated_signatures]
    ELSE IF ~signed.some
         THEN [result |-> HostErr([NoKernelError EXCEPT
                                      !.kind = "SignatureGenerationFailed"]),
               generated_signatures |-> h.generated_signatures]
         ELSE LET signature == to_prepared_signature(signed.word)
                  signature_key ==
                      HasherMerge(pub_key_hash, SigningInputsCommitment(signing_inputs))
              IN [result |-> HostOk(<<ExtendStack(signature)>>),
                  generated_signatures |->
                      MapInsert(h.generated_signatures, signature_key, signature)]

\* The vault the data store holds for a root: it only has the state of the
\* account at the beginning of the transaction.
CurrentVault(h) ==
    LET amount == KernelBalance(h)
    IN IF amount = 0 /\ ~(NativeAssetId \in DOMAIN h.vault_delta.fungible)
       THEN h.initial_vault
       ELSE SmtInsert(h.initial_vault, <<"fungible", NativeAssetId>>,
                      FungibleAsset(NativeAssetId, amount))

\* Faulty witness handler: the witness is taken against the current vault.
on_account_vault_asset_witness_requested_current(h, asset_key, store_ok) ==
    IF ~store_ok
    THEN HostErr([NoKernelError EXCEPT !.kind = "GetVaultAssetWitness"])
    ELSE HostOk(asset_witness_to_advice_mutation(AssetWitness(CurrentVault(h), asset_key)))

\* TransactionExecutorHost::on_account_vault_asset_witness_requested: the
\* request is made against the initial vault root.
on_account_vault_asset_witness_requested(h, asset_key, store_ok) ==
    IF ~store_ok
    THEN HostErr([NoKernelError EXCEPT !.kind = "GetVaultAssetWitness"])
    ELSE HostOk(asset_witness_to_advice_mutation(AssetWitness(h.initial_vault, asset_key)))

\* TransactionExecutorHost::on_account_storage_map_witness_requested
on_account_storage_map_witness_requested(h, store_ok) ==
    IF ~store_ok
    THEN HostErr([NoKernelError EXCEPT !.kind = "GetStorageMapWitness"])
    ELSE HostOk(<<[mutation |-> "extend_merkle_store", root |-> {<<"storage_map">>}],
                  [mutation |-> "extend_map", key |-> <<"storage_leaf">>,
                   value |-> EMPTY_VALUE]>>)

\* TransactionExecutorHost::on_foreign_account_requested
on_foreign_account_requested(h, store_ok) ==
    IF ~store_ok
    THEN HostErr([NoKernelError EXCEPT !.kind = "GetForeignAccountInputs"])
    ELSE HostOk(<<[mutation |-> "extend_merkle_store", root |-> {<<"foreign_account">>}],
                  [mutation |-> "extend_map", key |-> <<"foreign_code">>,
                   value |-> EMPTY_VALUE]>>)

\* The advice provider after one mutation, and after a sequence of them.
ApplyMutation(adv, mutation) ==
    CASE mutation.mutation = "extend_stack" ->
            [adv EXCEPT !.stack = Append(adv.stack, mutation.values)]
      [] mutation.mutation = "extend_map" ->
            [adv EXCEPT !.map = MapInsert(adv.map, mutation.key, mutation.value)]
      [] mutation.mutation = "extend_merkle_store" ->
            [adv EXCEPT !.store = adv.store \cup {mutation.root}]

RECURSIVE ApplyMutations(_, _)
ApplyMutations(adv, mutations) ==
    IF mutations = <<>> THEN adv
    ELSE ApplyMutations(ApplyMutation(adv, Head(mutations)), Tail(mutations))

EmptyAdvice == [stack |-> <<>>, map |-> EmptyMap, store |-> {}]

\* Felt subtraction.
FeltSub(a, b) == (a - b + FieldModulus) % FieldModulus

\* TransactionBaseHost::handle_event: delta tracking events are handled here,
\* the events of UnhandledEvents are handed on with their data.
base_host_handle_event(h, event) ==
    CASE event.kind = "AccountVaultChange" ->
            [handled |-> TRUE, err |-> NoKernelError,
             vault_delta |-> TrackVaultChange(h.vault_delta, event.n),
             nonce_delta |-> h.nonce_delta]
      [] event.kind = "AccountIncrementNonce" ->
            [handled |-> TRUE, err |-> NoKernelError, vault_delta |-> h.vault_delta,
             nonce_delta |-> FeltAdd(h.nonce_delta, 1)]
      [] event.kind = "Unauthorized" ->
            [handled |-> TRUE, err |-> [NoKernelError EXCEPT !.kind = "Unauthorized"],
             vault_delta |-> h.vault_delta, nonce_delta |-> h.nonce_delta]
      [] OTHER ->
            [handled |-> FALSE, err |-> NoKernelError, vault_delta |-> h.vault_delta,
             nonce_delta |-> h.nonce_delta]

\* The future returned by TransactionExecutorHost::on_event: the base host's
\* result is passed through, unhandled events go to their handler. `store_ok`
\* and `signed` are what the data store and the authenticator answer.
on_event(h, handling, event, store_ok, signed) ==
    LET keep == h.generated_signatures
    IN IF handling.err.kind # "none"
       THEN [result |-> HostErr(handling.err), generated_signatures |-> keep]
       ELSE IF handling.handled
       THEN [result |-> HostOk(<<>>), generated_signatures |-> keep]
       ELSE CASE event.kind = "AuthRequest" ->
                    on_auth_requested(h, PubKey, event.msg, signed)
              [] event.kind = "TransactionFeeComputed" ->
                    [result |-> on_before_tx_fee_removed_from_account(
                                    h.initial_vault, h.vault_delta,
                                    FungibleAsset(NativeAssetId, event.n), store_ok),
                     generated_signatures |-> keep]
              [] event.kind = "ForeignAccount" ->
                    [result |-> on_foreign_account_requested(h, store_ok),
                     generated_signatures |-> keep]
              [] event.kind = "AccountVaultAssetWitness" ->
                    [result |-> on_account_vault_asset_witness_requested(
                                    h, <<"fungible", event.n>>, store_ok),
                     generated_signatures |-> keep]
              [] event.kind = "AccountStorageMapWitness" ->
                    [result |-> on_account_storage_map_witness_requested(h, store_ok),
                     generated_signatures |-> keep]

\* AccountDelta::to_commitment
DeltaCommitment(delta) == <<"delta_commitment", delta.vault, delta.nonce_delta>>

\* AccountVaultDelta::remove_asset for a fungible asset: the amount is taken
\* off the faucet's signed entry, which must stay within the i64 range.
DeltaRemoveAsset(vault_delta, asset) ==
    LET old == IF asset.id \in DOMAIN vault_delta.fungible
               THEN vault_delta.fungible[asset.id] ELSE 0
        new == old - asset.amount
    IN IF new < 0 - (MAX_AMOUNT + 1)
       THEN [ok |-> FALSE, delta |-> vault_delta]
       ELSE [ok |-> TRUE,
             delta |-> [vault_delta EXCEPT !.fungible =
                           IF new = 0
                           THEN [f \in DOMAIN vault_delta.fungible \ {asset.id} |->
                                    vault_delta.fungible[f]]
                           ELSE [f \in DOMAIN vault_delta.fungible \cup {asset.id} |->
                                    IF f = asset.id THEN new ELSE vault_delta.fungible[f]]]]

ExecAccountId == "account"
EmptyAccountDelta == [vault |-> EmptyVaultDelta, nonce_delta |-> 0]

NoExecutedTransaction ==
    [some |-> FALSE,
     tx_inputs |-> [account |-> [id |-> "none", nonce |-> 0], advice_map |-> EmptyMap,
                    merkle_store |-> {}],
     tx_outputs |-> [account |-> [id |-> "none", nonce |-> 0],
                     fee |-> FungibleAsset(NativeAssetId, 0),
                     account_delta_commitment |-> DeltaCommitment(EmptyAccountDelta)],
     account_delta |-> EmptyAccountDelta]

\* ExecutedTransaction::new
ExecutedTransactionNew(tx_inputs, tx_outputs, account_delta) ==
    [some |-> TRUE, tx_inputs |-> tx_inputs, tx_outputs |-> tx_outputs,
     account_delta |-> account_delta]

ExecutorError(kind) == [NoExecutorError EXCEPT !.kind = kind]
ExecOk(executed) == [tx |-> executed, err |-> NoExecutorError]
ExecErr(e) == [tx |-> NoExecutedTransaction, err |-> e]

\* TransactionHostParts: TransactionExecutorHost::into_parts
into_parts(h) ==
    [account_delta |-> [vault |-> h.vault_delta, nonce_delta |-> h.nonce_delta],
     generated_signatures |-> h.generated_signatures]

\* Faulty stages of build_executed_transaction.
delta_commitment_unchecked(tx_outputs, pre_fee_account_delta) == TRUE
fee_left_in_delta(pre_fee_account_delta, fee) ==
    [ok |-> TRUE, delta |-> pre_fee_account_delta]
nonce_delta_unchecked(initial_account, final_account, post_fee_account_delta) == TRUE
signatures_dropped(map, generated_signatures) == map

\* build_executed_transaction: the kernel's delta commitment against the host's.
delta_commitment_matches(tx_outputs, pre_fee_account_delta) ==
    tx_outputs.account_delta_commitment = DeltaCommitment(pre_fee_account_delta)

\* build_executed_transaction: the post-fee delta is the pre-fee delta with the
\* fee asset removed from its vault part.
remove_fee_from_delta(pre_fee_account_delta, fee) ==
    LET removed == DeltaRemoveAsset(pre_fee_account_delta.vault, fee)
    IN [ok |-> removed.ok,
        delta |-> [pre_fee_account_delta EXCEPT !.vault = removed.delta]]

\* build_executed_transaction: the nonce delta against the accounts' nonces.
nonce_delta_matches(initial_account, final_account, post_fee_account_delta) ==
    FeltSub(final_account.nonce, initial_account.nonce) = post_fee_account_delta.nonce_delta

\* build_executed_transaction: advice_inputs.map.extend(generated_signatures)
extend_with_signatures(map, generated_signatures) == MapExtend(map, generated_signatures)

\* build_executed_transaction of crates/miden-tx. `stack_outputs` is what
\* TransactionKernel::from_transaction_parts reads off the VM's stack and advice.
executor_build_executed_transaction(advice_inputs, tx_inputs, stack_outputs, h) ==
    LET parts == into_parts(h)
        pre_fee_account_delta == parts.account_delta
        tx_outputs == [account |-> stack_outputs.account, fee |-> stack_outputs.fee,
                       account_delta_commitment |-> stack_outputs.account_delta_commitment]
        post_fee == remove_fee_from_delta(pre_fee_account_delta, tx_outputs.fee)
        initial_account == tx_inputs.account
        final_account == tx_outputs.account
    IN IF ~stack_outputs.outputs_ok
       THEN ExecErr(ExecutorError("TransactionOutputConstructionFailed"))
       ELSE IF ~delta_commitment_matches(tx_outputs, pre_fee_account_delta)
       THEN ExecErr(ExecutorError("InconsistentAccountDeltaCommitment"))
       ELSE IF ~post_fee.ok
       THEN ExecErr(ExecutorError("RemoveFeeAssetFromDelta"))
       ELSE IF initial_account.id # final_account.id
       THEN ExecErr(ExecutorError("InconsistentAccountId"))
       ELSE IF ~nonce_delta_matches(initial_account, final_account, post_fee.delta)
       THEN ExecErr(ExecutorError("InconsistentAccountNonceDelta"))
       ELSE ExecOk(ExecutedTransactionNew(
                [account |-> initial_account,
                 advice_map |-> extend_with_signatures(advice_inputs.map,
                                                       parts.generated_signatures),
                 merkle_store |-> advice_inputs.store],
                tx_outputs, post_fee.delta))

\* Faulty failure path: the delta tracked so far is surfaced next to the error.
execution_failed_with_partial(h, kernel_err) ==
    [tx |-> [NoExecutedTransaction EXCEPT !.account_delta = into_parts(h).account_delta,
                                          !.some = TRUE],
     err |-> map_execution_error(kernel_err)]

\* execute_transaction: processor.execute(..).await.map_err(map_execution_error)?
execution_failed(h, kernel_err) == ExecErr(map_execution_error(kernel_err))

\* The host borrows itself mutably for as long as the future of one event
\* lives, so a single event is in flight.
MutableBorrows == 1

\* Faulty dispatch: a second event is dispatched while the first is in flight.
can_dispatch_concurrently(inflight) == Len(inflight) < MutableBorrows + 1

\* on_event takes `&mut self`: the processor dispatches the next event only
\* after the future of the previous one has completed.
can_dispatch(inflight) == Len(inflight) < MutableBorrows

NoKernelOutputs ==
    [outputs_ok |-> FALSE, account |-> [id |-> "none", nonce |-> 0],
     fee |-> FungibleAsset(NativeAssetId, 0),
     account_delta_commitment |-> DeltaCommitment(EmptyAccountDelta)]

NoExec ==
    [pc |-> "idle", authenticator |-> FALSE, initial_vault |-> EmptySmt,
     initial_nonce |-> 0, vault_delta |-> EmptyVaultDelta, nonce_delta |-> 0,
     raised |-> 0, inflight |-> <<>>, responses |-> <<>>, response |-> HostOk(<<>>),
     answered |-> NoEvent, fee_computed |-> FALSE,
     fee_asset |-> FungibleAsset(NativeAssetId, 0), advice |-> EmptyAdvice,
     generated_signatures |-> EmptyMap, witnesses |-> EmptyMap,
     kernel_err |-> NoKernelError, stack_outputs |-> NoKernelOutputs,
     result |-> ExecErr(NoExecutorError)]

ExecIdle == exec = NoExec

NewExec(authenticator, initial_vault, initial_nonce) ==
    [NoExec EXCEPT !.pc = "start", !.authenticator = authenticator,
                   !.initial_vault = initial_vault, !.initial_nonce = initial_nonce]

\* What prepare_tx_inputs and prepare_transaction can fail with.
PrepareErrors ==
    {"NoteBlockPastReferenceBlock", "FetchTransactionInputsFailed",
     "InvalidTransactionInputs", "ConflictingAdviceMapEntry",
     "TransactionHostCreationFailed"}

\* execute_transaction up to the start of the VM: prepare_tx_inputs and
\* prepare_transaction succeed (err = "none") or end the call.
ExecPrepare(err) ==
    /\ sys = "exec"
    /\ exec.pc = "start"
    /\ exec' = IF err = "none" THEN [exec EXCEPT !.pc = "running"]
               ELSE [exec EXCEPT !.pc = "failed",
                                 !.result = ExecErr(ExecutorError(err))]
    /\ ExecFrame

\* What the kernel can do in the state the transaction is in.
KernelCanRaise(h, event) ==
    /\ ~h.fee_computed
    /\ event.kind = "AccountVaultChange" =>
          KernelBalance([h EXCEPT !.vault_delta = TrackVaultChange(h.vault_delta, event.n)])
              \in Amounts
    /\ event.kind = "AccountIncrementNonce" => h.nonce_delta = 0

\* The VM raises an event and the processor calls on_event: the base host
\* handles the event at once, the rest runs in the returned future.
ExecDispatchEvent(event) ==
    LET handling == base_host_handle_event(exec, event)
        ticket == exec.raised + 1
    IN /\ sys = "exec"
       /\ exec.pc = "running"
       /\ exec.raised < MaxEvents
       /\ can_dispatch(exec.inflight)
       /\ KernelCanRaise(exec, event)
       /\ exec' = [exec EXCEPT
                      !.raised = ticket,
                      !.vault_delta = handling.vault_delta,
                      !.nonce_delta = handling.nonce_delta,
                      !.fee_computed = (event.kind = "TransactionFeeComputed"),
                      !.fee_asset = IF event.kind = "TransactionFeeComputed"
                                    THEN FungibleAsset(NativeAssetId, event.n) ELSE @,
                      !.inflight = Append(@, [ticket |-> ticket, event |-> event,
                                              handling |-> handling])]
       /\ ExecFrame

RemoveAt(seq, i) == SubSeq(seq, 1, i - 1) \o SubSeq(seq, i + 1, Len(seq))

\* The future of an event in flight completes: its mutations are applied to the
\* advice provider and the VM resumes, or its error ends execute_transaction.
\* `witnesses` keeps, per requested asset key, the mutations of the first vault
\* asset witness answered and how often the key was served.
ExecAnswerEvent(i, store_ok, signed) ==
    LET entry == exec.inflight[i]
        r == on_event(exec, entry.handling, entry.event, store_ok, signed)
        is_witness == entry.event.kind = "AccountVaultAssetWitness"
        served == [exec EXCEPT
                      !.inflight = RemoveAt(@, i),
                      !.responses = Append(@, entry.ticket),
                      !.response = r.result,
                      !.answered = entry.event,
                      !.generated_signatures = r.generated_signatures,
                      !.advice = ApplyMutations(@, r.result.mutations)]
    IN /\ sys = "exec"
       /\ exec.pc = "running"
       /\ i \in 1 .. Len(exec.inflight)
       /\ exec' = IF r.result.err.kind = "none"
                  THEN [served EXCEPT
                           !.witnesses =
                               IF ~is_witness THEN @
                               ELSE IF entry.event.n \in DOMAIN @
                               THEN [@ EXCEPT ![entry.event.n].served = @ + 1]
                               ELSE MapInsert(@, entry.event.n,
                                              [mutations |-> r.result.mutations,
                                               served |-> 1])]
                  ELSE [served EXCEPT
                           !.pc = "failed",
                           !.kernel_err = r.result.err,
                           !.result = execution_failed(exec, r.result.err)]
       /\ ExecFrame

\* The kernel itself fails (an assertion of the kernel, not an event).
ExecKernelFailure ==
    LET kernel_err == [NoKernelError EXCEPT !.kind = "FailedAssertion"]
    IN /\ sys = "exec"
       /\ exec.pc = "running"
       /\ exec.inflight = <<>>
       /\ exec' = [exec EXCEPT !.pc = "failed", !.kernel_err = kernel_err,
                               !.result = execution_failed(exec, kernel_err)]
       /\ ExecFrame

\* The VM halts after the epilogue and execute_transaction builds its result
\* from the stack outputs, the advice provider and the host.
ExecHalt(outputs_ok, commitment_ok, final_id, final_nonce) ==
    LET tracked == into_parts(exec).account_delta
        kernel_delta == IF commitment_ok THEN tracked
                        ELSE [tracked EXCEPT !.nonce_delta = FeltAdd(@, 1)]
        stack_outputs == [outputs_ok |-> outputs_ok,
                          account |-> [id |-> final_id, nonce |-> final_nonce],
                          fee |-> exec.fee_asset,
                          account_delta_commitment |-> DeltaCommitment(kernel_delta)]
        advice_inputs == [map |-> exec.advice.map, store |-> exec.advice.store]
        tx_inputs == [account |-> [id |-> ExecAccountId, nonce |-> exec.initial_nonce]]
        result == executor_build_executed_transaction(advice_inputs, tx_inputs,
                                                      stack_outputs, exec)
    IN /\ sys = "exec"
       /\ exec.pc = "running"
       /\ exec.inflight = <<>>
       /\ exec.fee_computed
       /\ exec' = [exec EXCEPT !.pc = IF result.tx.some THEN "done" ELSE "failed",
                               !.stack_outputs = stack_outputs,
                               !.result = result]
       /\ ExecFrame

NextExec ==
    \/ \E err \in PrepareErrors \cup {"none"} : ExecPrepare(err)
    \/ \E event \in VmEvents : ExecDispatchEvent(event)
    \/ \E i \in 1 .. MutableBorrows + 1, store_ok \in BOOLEAN,
          signed \in {None} \cup {Some(s) : s \in Signatures} :
          ExecAnswerEvent(i, store_ok, signed)
    \/ ExecKernelFailure
    \/ \E outputs_ok \in BOOLEAN, commitment_ok \in BOOLEAN,
          final_id \in {ExecAccountId, "other"}, final_nonce \in Felts :
          ExecHalt(outputs_ok, commitment_ok, final_id, final_nonce)

-----------------------------------------------------------------------------
(* TransactionExecutor: execution options and the cycle budget             *)

\* Stand-ins for MIN_TX_EXECUTION_CYCLES and MAX_TX_EXECUTION_CYCLES.
MIN_TX_EXECUTION_CYCLES == 2
MAX_TX_EXECUTION_CYCLES == 4

\* Cycle counts an ExecutionOptions can carry, and the longest run looked at.
CycleCounts == 0 .. MAX_TX_EXECUTION_CYCLES + 1

\* validate_num_cycles
validate_num_cycles(num_cycles) ==
    IF ~(num_cycles \in MIN_TX_EXECUTION_CYCLES .. MAX_TX_EXECUTION_CYCLES)
    THEN "InvalidExecutionOptionsCycles" ELSE "none"

\* TransactionExecutor::new: the default options.
NewExecutor ==
    [pc |-> "new", max_cycles |-> MAX_TX_EXECUTION_CYCLES,
     expected_cycles |-> MIN_TX_EXECUTION_CYCLES, processor_limit |-> 0, clk |-> 0,
     err |-> "none"]

RunIdle == run = [NewExecutor EXCEPT !.pc = "idle"]

\* TransactionExecutor::with_options
with_options(executor, max_cycles, expected_cycles) ==
    IF validate_num_cycles(max_cycles) # "none"
    THEN [executor EXCEPT !.pc = "rejected", !.err = validate_num_cycles(max_cycles)]
    ELSE IF validate_num_cycles(expected_cycles) # "none"
    THEN [executor EXCEPT !.pc = "rejected", !.err = validate_num_cycles(expected_cycles)]
    ELSE [executor EXCEPT !.pc = "configured", !.max_cycles = max_cycles,
                          !.expected_cycles = expected_cycles]

WithOptions(max_cycles, expected_cycles) ==
    /\ sys = "run"
    /\ run.pc = "new"
    /\ run' = with_options(run, max_cycles, expected_cycles)
    /\ RunFrame

\* execute_transaction creates the processor with FastProcessor::new_debug(
\* stack_inputs, advice_inputs): exec_options is not handed to it, so the cycle
\* limit of the run is the processor's own, whatever the executor was
\* configured with.
ExecuteTransaction(processor_limit) ==
    /\ sys = "run"
    /\ run.pc \in {"new", "configured"}
    /\ run' = [run EXCEPT !.pc = "running", !.processor_limit = processor_limit]
    /\ RunFrame

\* The VM runs one more cycle, or is stopped by the processor at its limit.
VmCycle ==
    /\ sys = "run"
    /\ run.pc = "running"
    /\ run.clk + 1 \in CycleCounts
    /\ run' = IF run.clk + 1 > run.processor_limit
              THEN [run EXCEPT !.pc = "aborted",
                               !.err = "TransactionProgramExecutionFailed"]
              ELSE [run EXCEPT !.clk = @ + 1]
    /\ RunFrame

\* The program halts and execute_transaction goes on to build its result.
VmHalt ==
    /\ sys = "run"
    /\ run.pc = "running"
    /\ run' = [run EXCEPT !.pc = "completed"]
    /\ RunFrame

NextRun ==
    \/ \E max_cycles \in CycleCounts, expected_cycles \in CycleCounts :
          WithOptions(max_cycles, expected_cycles)
    \/ \E processor_limit \in CycleCounts : ExecuteTransaction(processor_limit)
    \/ VmCycle
    \/ VmHalt

-----------------------------------------------------------------------------
(* ProposedBatch: expiry and per-account state chains                      *)

\* Bound on the transactions of a batch.
MaxBatchTxs == 3

BatchAccounts == {"A", "B"}

\* Proven transactions against reference block `reference_block_num`: the
\* account, its state commitment before and after, the expiration block.
ProvenTxs(reference_block_num) ==
    [account : BatchAccounts, initial_state : {0, 1}, final_state : {1, 2},
     expiration_block_num : {reference_block_num, reference_block_num + 1}]

SeqsUpTo(S, n) == UNION {[1 .. k -> S] : k \in 0 .. n}

Min(S) == CHOOSE x \in S : \A y \in S : x <= y

BatchErr(e) == [ok |-> FALSE, err |-> e, account_updates |-> <<>>, expiration |-> 0]

\* Faulty expiry check: a transaction expiring at the reference block passes.
is_expired_strict(ptx, reference_block_num) == ptx.expiration_block_num < reference_block_num

\* A transaction is expired when its expiration block number is not greater
\* than the number of the batch's reference block.
is_expired(ptx, reference_block_num) == ptx.expiration_block_num <= reference_block_num

\* Faulty merge: the update of a later transaction replaces the final state
\* without a look at its initial state.
merge_proven_tx_unchecked(update, ptx) == [ok |-> TRUE, update |-> [update EXCEPT !.final = ptx.final_state]]

\* BatchAccountUpdate::merge_proven_tx: the transaction must start from the
\* state the update so far ends in.
merge_proven_tx(update, ptx) ==
    IF update.final # ptx.initial_state
    THEN [ok |-> FALSE, update |-> update]
    ELSE [ok |-> TRUE, update |-> [update EXCEPT !.final = ptx.final_state]]

\* The account updates of the batch, transactions merged left to right.
RECURSIVE AggregateUpdates(_, _, _)
AggregateUpdates(txs, i, updates) ==
    IF i > Len(txs) THEN [ok |-> TRUE, updates |-> updates]
    ELSE LET ptx == txs[i]
         IN IF ptx.account \in DOMAIN updates
            THEN LET merged == merge_proven_tx(updates[ptx.account], ptx)
                 IN IF ~merged.ok THEN [ok |-> FALSE, updates |-> updates]
                    ELSE AggregateUpdates(txs, i + 1,
                                          [updates EXCEPT ![ptx.account] = merged.update])
            ELSE AggregateUpdates(txs, i + 1,
                    [a \in DOMAIN updates \cup {ptx.account} |->
                        IF a = ptx.account
                        THEN [initial |-> ptx.initial_state, final |-> ptx.final_state]
                        ELSE updates[a]])

\* ProposedBatch::new
ProposedBatchNew(txs, reference_block_num) ==
    LET aggregated == AggregateUpdates(txs, 1, <<>>)
    IN IF txs = <<>> THEN BatchErr("EmptyTransactionBatch")
       ELSE IF \E i, j \in 1 .. Len(txs) : i < j /\ txs[i] = txs[j]
       THEN BatchErr("DuplicateTransaction")
       ELSE IF \E i \in 1 .. Len(txs) : is_expired(txs[i], reference_block_num)
       THEN BatchErr("ExpiredTransaction")
       ELSE IF ~aggregated.ok THEN BatchErr("AccountUpdateInitialStateMismatch")
       ELSE [ok |-> TRUE, err |-> "none", account_updates |-> aggregated.updates,
             expiration |-> Min({txs[i].expiration_block_num : i \in 1 .. Len(txs)})]

BatchIdle == batch = [pc |-> "idle", reference_block_num |-> 0, txs |-> <<>>,
                      result |-> BatchErr("none")]

\* A batch is proposed from the transactions at hand.
ProposeBatch ==
    /\ sys = "batch"
    /\ batch.pc = "input"
    /\ batch' = [batch EXCEPT !.pc = "proposed",
                              !.result = ProposedBatchNew(batch.txs,
                                                          batch.reference_block_num)]
    /\ BatchFrame

NextBatch == ProposeBatch

-----------------------------------------------------------------------------
(* ProposedBlock and LocalBlockProver                                      *)

\* Bound on the batches of a block.
MaxBatches == 2

\* Account ids as (prefix, suffix).
NewIdP1 == <<"p", 1>>
NewIdP2 == <<"p", 2>>
NewIdR1 == <<"r", 1>>
ExistingIdR2 == <<"r", 2>>
ExistingIdQ == <<"q", 1>>
OtherIdW == <<"w", 1>>

Prefix(id) == id[1]

\* The two roots a witness can open to: the trees of the previous block and
\* the trees of the block before it.
TreeRoots == {<<"prev">>, <<"stale">>}

\* An empty state commitment: the account does not exist.
EmptyCommitment == 0

\* The leaf of the account tree with root `root` at `prefix`.
AccountLeaf(root, prefix) ==
    CASE prefix = "q" -> [id |-> ExistingIdQ, commitment |-> 1]
      [] prefix = "r" -> [id |-> ExistingIdR2, commitment |-> 1]
      [] prefix = "w" -> [id |-> OtherIdW, commitment |-> IF root = <<"stale">> THEN 1 ELSE 2]
      [] OTHER -> [id |-> <<prefix, 0>>, commitment |-> EmptyCommitment]

\* AccountWitness::from_smt_proof: over an occupied leaf the witness is for
\* the id in the leaf, over an empty leaf for the requested id.
from_smt_proof(requested_account_id, root) ==
    LET leaf == AccountLeaf(root, Prefix(requested_account_id))
    IN [id |-> IF leaf.commitment = EmptyCommitment THEN requested_account_id ELSE leaf.id,
        commitment |-> leaf.commitment,
        root |-> root]

Notes == {"n1", "n2"}

Nullifier(note) == <<"nullifier", note>>

\* The nullifier tree: the note n2 was spent by the previous block.
NullifierSpentAt(root, nullifier) == root = <<"prev">> /\ nullifier = Nullifier("n2")

AccountUpdates ==
    {[account |-> NewIdP1, initial |-> 0, final |-> 1],
     [account |-> NewIdP2, initial |-> 0, final |-> 1],
     [account |-> NewIdR1, initial |-> 0, final |-> 1],
     [account |-> ExistingIdQ, initial |-> 1, final |-> 2],
     [account |-> ExistingIdQ, initial |-> 2, final |-> 3],
     [account |-> ExistingIdQ, initial |-> 1, final |-> 3]}

InputNote(note, authenticated) == [note |-> note, authenticated |-> authenticated]

NoteActivity ==
    {[input_notes |-> {}, output_notes |-> {}],
     [input_notes |-> {InputNote("n1", TRUE)}, output_notes |-> {}],
     [input_notes |-> {InputNote("n1", FALSE)}, output_notes |-> {}],
     [input_notes |-> {InputNote("n2", TRUE)}, output_notes |-> {}],
     [input_notes |-> {}, output_notes |-> {"n1"}]}

PrevBlockHeader ==
    [block_num |-> 2, account_root |-> <<"prev">>, nullifier_root |-> <<"prev">>,
     note_root |-> <<"notes", <<{"n1", "n2"}>> >>]

\* Batches: most expire well after the block being proposed; batches of two
\* of the accounts, without notes, expire at the previous block or at the
\* block being proposed.
ProvenBatches ==
    {[update |-> u, input_notes |-> n.input_notes, output_notes |-> n.output_notes,
      batch_expiration_block_num |-> PrevBlockHeader.block_num + 4] :
        u \in AccountUpdates, n \in NoteActivity}
    \cup
    {[update |-> u, input_notes |-> {}, output_notes |-> {},
      batch_expiration_block_num |-> e] :
        u \in {v \in AccountUpdates : v.final = 1 + v.initial /\ v.initial < 2
                                        /\ v.account \in {NewIdR1, ExistingIdQ}},
        e \in {PrevBlockHeader.block_num, PrevBlockHeader.block_num + 1}}

BlockError(kind, prefix, root) == [kind |-> kind, prefix |-> prefix, root |-> root]

NoBlockError == BlockError("none", "none", <<>>)

NoProposedBlock ==
    [err |-> NoBlockError, block_num |-> 0, batches |-> <<>>, updated_accounts |-> <<>>,
     created_nullifiers |-> {}, output_note_batches |-> <<>>,
     account_witness_root |-> <<"prev">>, nullifier_witness_root |-> <<"prev">>]

ProposedErr(kind) == [NoProposedBlock EXCEPT !.err = BlockError(kind, "none", <<>>)]

\* The batch-level updates of the block against `id`.
UpdatesOf(batches, id) ==
    {[initial |-> batches[i].update.initial, final |-> batches[i].update.final, batch |-> i] :
        i \in {j \in 1 .. Len(batches) : batches[j].update.account = id}}

\* Faulty aggregation: the updates are chained in the order of the batches.
RECURSIVE chain_updates_in_batch_order(_, _)
chain_updates_in_batch_order(state, remaining) ==
    IF remaining = {} THEN [ok |-> TRUE, final |-> state]
    ELSE LET first == CHOOSE u \in remaining : \A v \in remaining : u.batch <= v.batch
         IN IF first.initial # state THEN [ok |-> FALSE, final |-> state]
            ELSE chain_updates_in_batch_order(first.final, remaining \ {first})

\* The update that starts in `state` is applied next, whichever batch it is
\* from, until no update remains.
RECURSIVE chain_updates(_, _)
chain_updates(state, remaining) ==
    IF remaining = {} THEN [ok |-> TRUE, final |-> state]
    ELSE IF \E u \in remaining : u.initial = state
    THEN LET next == CHOOSE u \in remaining : u.initial = state
         IN chain_updates(next.final, remaining \ {next})
    ELSE [ok |-> FALSE, final |-> state]

\* The block-level update of one account.
aggregate_account(batches, id, witness) ==
    LET updates == UpdatesOf(batches, id)
        initial == IF witness.id = id THEN witness.commitment ELSE EmptyCommitment
        chained == chain_updates(initial, updates)
    IN IF \E u, v \in updates : u # v /\ u.initial = v.initial
       THEN [err |-> "ConflictingBatchesUpdateSameAccount", initial |-> initial, final |-> initial]
       ELSE IF ~chained.ok
       THEN [err |-> "InconsistentAccountStateTransition", initial |-> initial, final |-> initial]
       ELSE [err |-> "none", initial |-> initial, final |-> chained.final]

BlockInputNotes(batches) == UNION {batches[i].input_notes : i \in 1 .. Len(batches)}

BlockOutputNotes(batches) == UNION {batches[i].output_notes : i \in 1 .. Len(batches)}

\* The unauthenticated input notes that are output notes of the block.
erased_notes(batches) ==
    {n \in BlockOutputNotes(batches) : InputNote(n, FALSE) \in BlockInputNotes(batches)}

\* Faulty erasure: the erased notes stay among the output notes of their batch.
erase_output_notes_kept(output_notes, erased) == output_notes

\* The output notes of a batch without the erased ones.
erase_output_notes(output_notes, erased) == output_notes \ erased

\* Faulty check: the witness of a nullifier is not looked at.
nullifier_spent_unchecked(root, nullifier) == FALSE

\* What the nullifier witness opened to `root` says of `nullifier`.
nullifier_spent(root, nullifier) == NullifierSpentAt(root, nullifier)

\* Faulty expiration check: a batch that expires at the block being proposed
\* is refused.
batch_expired_at_limit(proven_batch, current_block_num) ==
    proven_batch.batch_expiration_block_num <= current_block_num

\* ProposedBlockError::ExpiredBatch: the batch expired at a block before the
\* current one.
batch_expired(proven_batch, current_block_num) ==
    proven_batch.batch_expiration_block_num < current_block_num

\* ProposedBlock::new
ProposedBlockNew(account_witness_root, nullifier_witness_root, batches) ==
    LET indices == 1 .. Len(batches)
        erased == erased_notes(batches)
        unauthenticated == {n.note : n \in {m \in BlockInputNotes(batches) : ~m.authenticated}}
        nullifiers == {Nullifier(n.note) : n \in {m \in BlockInputNotes(batches) :
                                                    ~(~m.authenticated /\ m.note \in erased)}}
        accounts == {batches[i].update.account : i \in indices}
        aggregated == [id \in accounts |->
                          aggregate_account(batches, id, from_smt_proof(id, account_witness_root))]
    IN IF \E i, j \in indices : i < j /\ batches[i] = batches[j]
       THEN ProposedErr("DuplicateBatch")
       ELSE IF \E i \in indices : batch_expired(batches[i], PrevBlockHeader.block_num + 1)
       THEN ProposedErr("ExpiredBatch")
       ELSE IF \E i, j \in indices : i < j /\ \E n \in batches[i].input_notes :
                                         \E m \in batches[j].input_notes : n.note = m.note
       THEN ProposedErr("DuplicateInputNote")
       ELSE IF \E i, j \in indices : i < j /\ batches[i].output_notes \cap batches[j].output_notes # {}
       THEN ProposedErr("DuplicateOutputNote")
       ELSE IF unauthenticated \ erased # {}
       THEN ProposedErr("UnauthenticatedNoteConsumed")
       ELSE IF \E n \in nullifiers : nullifier_spent(nullifier_witness_root, n)
       THEN ProposedErr("NullifierSpent")
       ELSE IF \E id \in accounts : aggregated[id].err # "none"
       THEN ProposedErr(aggregated[CHOOSE id \in accounts : aggregated[id].err # "none"].err)
       ELSE [err |-> NoBlockError,
             block_num |-> PrevBlockHeader.block_num + 1,
             batches |-> batches,
             updated_accounts |-> [id \in accounts |->
                                      [initial |-> aggregated[id].initial,
                                       final |-> aggregated[id].final,
                                       witness |-> from_smt_proof(id, account_witness_root)]],
             created_nullifiers |-> nullifiers,
             output_note_batches |-> [i \in indices |->
                                        erase_output_notes(batches[i].output_notes, erased)],
             account_witness_root |-> account_witness_root,
             nullifier_witness_root |-> nullifier_witness_root]

\* Faulty variant: a block without nullifiers is handled like any other.
compute_nullifier_root_no_shortcut(proposed) ==
    IF proposed.nullifier_witness_root # PrevBlockHeader.nullifier_root
    THEN [err |-> BlockError("StaleNullifierTreeRoot", "none", PrevBlockHeader.nullifier_root),
          root |-> <<>>]
    ELSE [err |-> NoBlockError, root |-> <<"nullifiers", proposed.created_nullifiers>>]

\* The root of the nullifier tree after the block, or the error of computing it.
compute_nullifier_root(proposed) ==
    IF proposed.created_nullifiers = {} THEN [err |-> NoBlockError, root |-> PrevBlockHeader.nullifier_root]
    ELSE IF proposed.nullifier_witness_root # PrevBlockHeader.nullifier_root
    THEN [err |-> BlockError("StaleNullifierTreeRoot", "none", PrevBlockHeader.nullifier_root),
          root |-> <<>>]
    ELSE [err |-> NoBlockError, root |-> <<"nullifiers", proposed.created_nullifiers>>]

\* Faulty freshness check: any root the witnesses agree on is accepted.
account_root_is_stale_unchecked(proposed) == FALSE

\* The witnesses open to a root other than the previous block's account root.
account_root_is_stale(proposed) == proposed.account_witness_root # PrevBlockHeader.account_root

\* Faulty tracking: witnesses of different ids under one prefix go unnoticed.
tracked_twice_unnoticed(updated_accounts) == {Prefix(id) : id \in {}}

\* The prefixes under which witnesses of two different ids are tracked.
tracked_twice(updated_accounts) ==
    {Prefix(id) : id \in {a \in DOMAIN updated_accounts : \E b \in DOMAIN updated_accounts :
        /\ updated_accounts[a].witness.id # updated_accounts[b].witness.id
        /\ Prefix(updated_accounts[a].witness.id) = Prefix(updated_accounts[b].witness.id)}}

\* The root of the account tree after the block, or the error of computing it:
\* the witnesses are tracked in a partial tree, its root is compared with the
\* previous block's, then the final states are inserted.
compute_account_root(proposed) ==
    LET ids == DOMAIN proposed.updated_accounts
        witness_id(id) == proposed.updated_accounts[id].witness.id
        duplicates == tracked_twice(proposed.updated_accounts)
        occupied == {Prefix(id) : id \in {a \in ids : witness_id(a) # a}}
    IN IF ids = {} THEN [err |-> NoBlockError, root |-> PrevBlockHeader.account_root]
       ELSE IF duplicates # {}
       THEN [err |-> BlockError("AccountWitnessTracking", CHOOSE p \in duplicates : TRUE, <<>>),
             root |-> <<>>]
       ELSE IF account_root_is_stale(proposed)
       THEN [err |-> BlockError("StaleAccountTreeRoot", "none", PrevBlockHeader.account_root),
             root |-> <<>>]
       ELSE IF occupied # {}
       THEN [err |-> BlockError("AccountIdPrefixDuplicate", CHOOSE p \in occupied : TRUE, <<>>),
             root |-> <<>>]
       ELSE [err |-> NoBlockError,
             root |-> <<"accounts", [id \in ids |-> proposed.updated_accounts[id].final]>>]

EmptyNoteRoot == <<"notes", <<>> >>

NoProvenBlock ==
    [err |-> NoBlockError,
     header |-> [block_num |-> 0, account_root |-> <<>>, nullifier_root |-> <<>>,
                 note_root |-> EmptyNoteRoot],
     updated_accounts |-> <<>>, created_nullifiers |-> {}, output_note_batches |-> <<>>]

\* LocalBlockProver::prove; `nullifiers_first` is the order in which the two
\* roots are computed.
prove(proposed, nullifiers_first) ==
    LET nullifier_root == compute_nullifier_root(proposed)
        account_root == compute_account_root(proposed)
        first == IF nullifiers_first THEN nullifier_root ELSE account_root
        second == IF nullifiers_first THEN account_root ELSE nullifier_root
    IN IF first.err # NoBlockError THEN [NoProvenBlock EXCEPT !.err = first.err]
       ELSE IF second.err # NoBlockError THEN [NoProvenBlock EXCEPT !.err = second.err]
       ELSE [err |-> NoBlockError,
             header |-> [block_num |-> proposed.block_num,
                         account_root |-> account_root.root,
                         nullifier_root |-> nullifier_root.root,
                         note_root |-> IF \A i \in DOMAIN proposed.output_note_batches :
                                             proposed.output_note_batches[i] = {}
                                       THEN EmptyNoteRoot
                                       ELSE <<"notes", proposed.output_note_batches>>],
             updated_accounts |-> [id \in DOMAIN proposed.updated_accounts |->
                                      [initial |-> proposed.updated_accounts[id].initial,
                                       final |-> proposed.updated_accounts[id].final]],
             created_nullifiers |-> proposed.created_nullifiers,
             output_note_batches |-> proposed.output_note_batches]

NoBlock ==
    [pc |-> "idle", account_witness_root |-> <<"prev">>, nullifier_witness_root |-> <<"prev">>,
     batches |-> <<>>, proposed |-> NoProposedBlock, proven |-> NoProvenBlock]

BlockIdle == block = NoBlock

\* A block is proposed from the batches and the block inputs.
ProposeBlock ==
    /\ sys = "block"
    /\ block.pc = "inputs"
    /\ LET proposed == ProposedBlockNew(block.account_witness_root,
                                        block.nullifier_witness_root, block.batches)
       IN block' = [block EXCEPT !.pc = IF proposed.err = NoBlockError
                                        THEN "proposed" ELSE "rejected",
                                 !.proposed = proposed]
    /\ BlockFrame

\* The proposed block is proven.
ProveBlock(nullifiers_first) ==
    /\ sys = "block"
    /\ block.pc = "proposed"
    /\ LET proven == prove(block.proposed, nullifiers_first)
       IN block' = [block EXCEPT !.pc = IF proven.err = NoBlockError
                                        THEN "proven" ELSE "failed",
                                 !.proven = proven]
    /\ BlockFrame

NextBlock ==
    \/ ProposeBlock
    \/ \E nullifiers_first \in BOOLEAN : ProveBlock(nullifiers_first)

-----------------------------------------------------------------------------
(* The kernel's asset bookkeeping: input vault and output vault            *)

\* Amounts of the one asset the transaction moves.
KernelAmounts == 0 .. 2

ASSETS_ERROR == "ERR_EPILOGUE_TOTAL_NUMBER_OF_ASSETS_MUST_STAY_THE_SAME"

\* The input vault after the prologue: the account's vault and the assets of
\* the input notes.
prologue_input_vault(initial_vault, input_notes) == initial_vault + input_notes

\* Faulty epilogue: the vaults are not compared.
epilogue_assets_unchecked(input_vault, output_vault) == "none"

\* The epilogue's comparison of the input vault with the output vault.
epilogue_assets_check(input_vault, output_vault) ==
    IF input_vault # output_vault THEN ASSETS_ERROR ELSE "none"

NoKernel ==
    [pc |-> "idle", is_faucet |-> FALSE, initial_vault |-> 0, input_notes |-> 0,
     account_vault |-> 0, output_notes |-> 0, input_vault |-> 0, output_vault |-> 0,
     err |-> "none"]

KernelIdle == kernel = NoKernel

\* The prologue loads the account and the input notes.
Prologue ==
    /\ sys = "kernel"
    /\ kernel.pc = "loaded"
    /\ kernel' = [kernel EXCEPT !.pc = "executing",
                                !.account_vault = kernel.initial_vault,
                                !.input_vault = prologue_input_vault(kernel.initial_vault,
                                                                     kernel.input_notes)]
    /\ KernelFrame

\* A script adds an asset to the account's vault.
KernelAddAsset(amount) ==
    /\ sys = "kernel"
    /\ kernel.pc = "executing"
    /\ kernel.account_vault + amount \in KernelAmounts
    /\ kernel' = [kernel EXCEPT !.account_vault = @ + amount]
    /\ KernelFrame

\* A script removes an asset from the account's vault.
KernelRemoveAsset(amount) ==
    /\ sys = "kernel"
    /\ kernel.pc = "executing"
    /\ amount <= kernel.account_vault
    /\ kernel' = [kernel EXCEPT !.account_vault = @ - amount]
    /\ KernelFrame

\* A script creates an output note and adds an asset to it.
CreateNoteWithAsset(amount) ==
    /\ sys = "kernel"
    /\ kernel.pc = "executing"
    /\ kernel.output_notes + amount \in KernelAmounts
    /\ kernel' = [kernel EXCEPT !.output_notes = @ + amount]
    /\ KernelFrame

\* The faucet account mints its asset: the asset enters the input vault.
Mint(amount) ==
    /\ sys = "kernel"
    /\ kernel.pc = "executing"
    /\ kernel.is_faucet
    /\ kernel.input_vault + amount <= 2 * Cardinality(KernelAmounts)
    /\ kernel' = [kernel EXCEPT !.input_vault = @ + amount]
    /\ KernelFrame

\* The faucet account burns its asset: the asset enters the output vault.
Burn(amount) ==
    /\ sys = "kernel"
    /\ kernel.pc = "executing"
    /\ kernel.is_faucet
    /\ kernel.output_vault + amount <= 2 * Cardinality(KernelAmounts)
    /\ kernel' = [kernel EXCEPT !.output_vault = @ + amount]
    /\ KernelFrame

\* The epilogue: the account's vault and the output notes enter the output
\* vault, which is compared with the input vault.
Epilogue ==
    LET output_vault == kernel.output_vault + kernel.account_vault + kernel.output_notes
        e == epilogue_assets_check(kernel.input_vault, output_vault)
    IN /\ sys = "kernel"
       /\ kernel.pc = "executing"
       /\ kernel' = [kernel EXCEPT !.pc = IF e = "none" THEN "completed" ELSE "failed",
                                   !.output_vault = output_vault,
                                   !.err = e]
       /\ KernelFrame

NextKernel ==
    \/ Prologue
    \/ \E amount \in KernelAmounts \ {0} :
          \/ KernelAddAsset(amount)
          \/ KernelRemoveAsset(amount)
          \/ CreateNoteWithAsset(amount)
          \/ Mint(amount)
          \/ Burn(amount)
    \/ Epilogue

-----------------------------------------------------------------------------
(* TransactionExecutor::prepare_tx_inputs: input notes and the data store  *)

\* Block numbers of the reference block and of note locations, and the most
\* input notes per transaction looked at.
PrepBlockNums == 0 .. 2
MaxInputNotes == 2
PrepNoteIds == {"n1", "n2"}

\* InputNote::location: the inclusion location of an authenticated note, none
\* for an unauthenticated one.
NoLocation == [some |-> FALSE, block_num |-> 0]
Location(block_num) == [some |-> TRUE, block_num |-> block_num]

\* InputNotes: no two notes share an id.
PrepNotes == [id : PrepNoteIds, location : {NoLocation} \cup {Location(b) : b \in PrepBlockNums}]
PrepInputNotes ==
    {notes \in SeqsUpTo(PrepNotes, MaxInputNotes) :
        \A i, j \in 1 .. Len(notes) : notes[i].id = notes[j].id => i = j}

PrepErr(kind, note, block_ref) == [kind |-> kind, note |-> note, block_ref |-> block_ref]
NoPrepErr == PrepErr("none", "none", 0)

\* validate_input_notes: the first note located after the reference block ends
\* the loop; otherwise the block numbers of the located notes are returned.
RECURSIVE validate_input_notes(_, _, _)
validate_input_notes(notes, block_ref, ref_blocks) ==
    IF notes = <<>> THEN [err |-> NoPrepErr, ref_blocks |-> ref_blocks]
    ELSE LET note == Head(notes)
         IN IF ~note.location.some
            THEN validate_input_notes(Tail(notes), block_ref, ref_blocks)
            ELSE IF note.location.block_num > block_ref
            THEN [err |-> PrepErr("NoteBlockPastReferenceBlock", note.id, block_ref),
                  ref_blocks |-> {}]
            ELSE validate_input_notes(Tail(notes), block_ref,
                                      ref_blocks \cup {note.location.block_num})

\* Faulty order: the data store is asked before the notes are validated.
data_store_request_unvalidated(validated, block_ref) == <<validated.ref_blocks \cup {block_ref}>>

\* What prepare_tx_inputs asks the data store for once validation is over:
\* nothing if validation failed (the `?` returns), else the blocks of the notes
\* and the reference block.
data_store_request(validated, block_ref) ==
    IF validated.err.kind # "none" THEN <<>>
    ELSE <<validated.ref_blocks \cup {block_ref}>>

NoPrep ==
    [pc |-> "idle", block_ref |-> 0, notes |-> <<>>, requests |-> <<>>,
     err |-> NoPrepErr]

PrepIdle == prep = NoPrep

\* prepare_tx_inputs up to the await on DataStore::get_transaction_inputs.
PrepareTxInputs ==
    LET validated == validate_input_notes(prep.notes, prep.block_ref, {})
    IN /\ sys = "prep"
       /\ prep.pc = "start"
       /\ prep' = [prep EXCEPT
                      !.pc = IF validated.err.kind = "none" THEN "fetching" ELSE "failed",
                      !.requests = data_store_request(validated, prep.block_ref),
                      !.err = validated.err]
       /\ PrepFrame

\* The data store answers and TransactionInputs::new checks what it returned.
DataStoreAnswers(store_ok, inputs_ok) ==
    /\ sys = "prep"
    /\ prep.pc = "fetching"
    /\ prep' = IF ~store_ok
               THEN [prep EXCEPT !.pc = "failed",
                                 !.err = PrepErr("FetchTransactionInputsFailed", "none", 0)]
               ELSE IF ~inputs_ok
               THEN [prep EXCEPT !.pc = "failed",
                                 !.err = PrepErr("InvalidTransactionInputs", "none", 0)]
               ELSE [prep EXCEPT !.pc = "prepared"]
    /\ PrepFrame

NextPrep ==
    \/ PrepareTxInputs
    \/ \E store_ok \in BOOLEAN, inputs_ok \in BOOLEAN : DataStoreAnswers(store_ok, inputs_ok)

-----------------------------------------------------------------------------
(* TryFromVmResult: transaction outputs from the stack and the advice map  *)

WORD_SIZE == 4
OUTPUT_NOTES_COMMITMENT_WORD_IDX == 0
FINAL_ACCOUNT_HASH_WORD_IDX == 1

\* The most output notes looked at, the notes, and what the advice map can
\* hold per note: a note or elements that are not one.
MaxOutputNotes == 2
OutputNoteIds == {1, 2}
InvalidNoteElements == ZERO
NoteData == SeqsUpTo(OutputNoteIds \cup {InvalidNoteElements}, MaxOutputNotes)

\* OutputNotes::commitment: a word that stands for the hash of the notes, one
\* word per list of notes.
OutputNotesCommitment(notes) ==
    [i \in 1 .. WORD_SIZE |-> IF i <= Len(notes) THEN notes[i] ELSE ZERO]

\* The hash of the final account.
FinalAccountHash == <<3, 3, 3, 3>>

\* .iter().rev(): the stack holds a word with its last element on top.
Reversed(word) == [i \in 1 .. Len(word) |-> word[Len(word) + 1 - i]]

\* The word at word index `idx` of the stack outputs.
stack_word(stack, idx) ==
    Reversed(SubSeq(stack, idx * WORD_SIZE + 1, (idx + 1) * WORD_SIZE))

\* Stack outputs of the kernel: the output notes commitment, then the final
\* account hash.
StackOutputs(notes_commitment, account_hash) ==
    Reversed(notes_commitment) \o Reversed(account_hash)

TransactionResultError(kind, expected, recomputed) ==
    [kind |-> kind, expected |-> expected, recomputed |-> recomputed]
NoResultError == TransactionResultError("none", <<>>, <<>>)

ResultOk(notes) == [ok |-> TRUE, notes |-> notes, err |-> NoResultError]
ResultErr(e) == [ok |-> FALSE, notes |-> <<>>, err |-> e]

\* notes_try_from_elements over the note data, note by note.
notes_from_data(data) ==
    IF \E i \in 1 .. Len(data) : data[i] = InvalidNoteElements
    THEN ResultErr(TransactionResultError("OutputNoteDataInvalid", <<>>, <<>>))
    ELSE ResultOk(data)

\* OutputNotes::new: no two notes are the same.
output_notes_new(notes) ==
    IF \E i, j \in 1 .. Len(notes) : i # j /\ notes[i] = notes[j]
    THEN ResultErr(TransactionResultError("OutputNotesError", <<>>, <<>>))
    ELSE ResultOk(notes)

\* Faulty comparison: the commitment is not compared.
commitment_inconsistent_unchecked(created_notes_commitment, created_notes) == FALSE

\* created_notes_commitment != created_notes.commitment()
commitment_inconsistent(created_notes_commitment, created_notes) ==
    created_notes_commitment # OutputNotesCommitment(created_notes)

\* OutputNotes::try_from_vm_result
output_notes_try_from_vm_result(stack_outputs, advice_map) ==
    LET created_notes_commitment ==
            stack_word(stack_outputs, OUTPUT_NOTES_COMMITMENT_WORD_IDX)
    IN IF created_notes_commitment \notin DOMAIN advice_map
       THEN ResultErr(TransactionResultError("OutputNoteDataNotFound", <<>>, <<>>))
       ELSE LET parsed == notes_from_data(advice_map[created_notes_commitment])
                created_notes == output_notes_new(parsed.notes)
            IN IF ~parsed.ok THEN parsed
               ELSE IF ~created_notes.ok THEN created_notes
               ELSE IF commitment_inconsistent(created_notes_commitment,
                                               created_notes.notes)
               THEN ResultErr(TransactionResultError(
                        "OutputNotesCommitmentInconsistent", created_notes_commitment,
                        OutputNotesCommitment(created_notes.notes)))
               ELSE created_notes

\* extract_final_account_stub
extract_final_account_stub(stack_outputs, advice_map, stub_valid) ==
    IF stack_word(stack_outputs, FINAL_ACCOUNT_HASH_WORD_IDX) \notin DOMAIN advice_map
    THEN ResultErr(TransactionResultError("FinalAccountDataNotFound", <<>>, <<>>))
    ELSE IF ~stub_valid
    THEN ResultErr(TransactionResultError("FinalAccountStubDataInvalid", <<>>, <<>>))
    ELSE ResultOk(<<>>)

\* TransactionOutputs::try_from_vm_result
try_from_vm_result(stack_outputs, advice_map, stub_valid) ==
    LET stub == extract_final_account_stub(stack_outputs, advice_map, stub_valid)
    IN IF ~stub.ok THEN stub
       ELSE output_notes_try_from_vm_result(stack_outputs, advice_map)

NoVmRes ==
    [pc |-> "idle", stack_outputs |-> <<>>, advice_map |-> EmptyMap,
     result |-> ResultErr(NoResultError)]

VmResIdle == vmres = NoVmRes

\* The VM has halted: the transaction outputs are read from what it left.
TryFromVmResult(stub_valid) ==
    LET r == try_from_vm_result(vmres.stack_outputs, vmres.advice_map, stub_valid)
    IN /\ sys = "vmres"
       /\ vmres.pc = "halted"
       /\ vmres' = [vmres EXCEPT !.pc = IF r.ok THEN "accepted" ELSE "rejected",
                                 !.result = r]
       /\ VmResFrame

NextVmRes == \E stub_valid \in BOOLEAN : TryFromVmResult(stub_valid)

-----------------------------------------------------------------------------
(* Specifications: one per component, and their union                      *)

InitVault ==
    /\ VmResIdle
    /\ PrepIdle
    /\ KernelIdle
    /\ BlockIdle
    /\ BatchIdle
    /\ RunIdle
    /\ sys = "vault" /\ VaultIdle /\ AccountIdle /\ TxIdle /\ AdviceIdle /\ HostIdle
    /\ ExecIdle
InitAccount ==
    /\ VmResIdle
    /\ PrepIdle
    /\ KernelIdle
    /\ BlockIdle
    /\ BatchIdle
    /\ RunIdle
    /\ sys = "account" /\ AccountIdle /\ VaultIdle /\ TxIdle /\ AdviceIdle /\ HostIdle
    /\ ExecIdle
InitTx ==
    /\ VmResIdle
    /\ PrepIdle
    /\ KernelIdle
    /\ BlockIdle
    /\ BatchIdle
    /\ RunIdle
    /\ sys = "tx" /\ AccountIdle /\ VaultIdle /\ AdviceIdle /\ HostIdle /\ ExecIdle
    /\ tx \in {LoadedTx(a) : a \in AccountStates}
InitAdvice ==
    /\ VmResIdle
    /\ PrepIdle
    /\ KernelIdle
    /\ BlockIdle
    /\ BatchIdle
    /\ RunIdle
    /\ sys = "advice" /\ AccountIdle /\ VaultIdle /\ TxIdle /\ HostIdle /\ ExecIdle
    /\ advice = [NoAdvice EXCEPT !.pc = "new"]
InitHost ==
    /\ VmResIdle
    /\ PrepIdle
    /\ KernelIdle
    /\ BlockIdle
    /\ BatchIdle
    /\ RunIdle
    /\ sys = "host" /\ AccountIdle /\ VaultIdle /\ TxIdle /\ AdviceIdle /\ ExecIdle
    /\ host \in {[NoHost EXCEPT !.pc = "executing", !.initial_vault = v] :
                    v \in InitialFeeVaults}

InitExec ==
    /\ VmResIdle
    /\ PrepIdle
    /\ KernelIdle
    /\ BlockIdle
    /\ BatchIdle
    /\ RunIdle
    /\ sys = "exec" /\ AccountIdle /\ VaultIdle /\ TxIdle /\ AdviceIdle /\ HostIdle
    /\ exec \in {NewExec(authenticator, v, n) :
                    authenticator \in BOOLEAN, v \in ExecInitialVaults,
                    n \in ExecInitialNonces}

InitRun ==
    /\ VmResIdle
    /\ PrepIdle
    /\ KernelIdle
    /\ BlockIdle
    /\ BatchIdle
    /\ sys = "run" /\ AccountIdle /\ VaultIdle /\ TxIdle /\ AdviceIdle /\ HostIdle
    /\ ExecIdle
    /\ run = NewExecutor

InitBatch ==
    /\ VmResIdle
    /\ PrepIdle
    /\ KernelIdle
    /\ BlockIdle
    /\ sys = "batch" /\ AccountIdle /\ VaultIdle /\ TxIdle /\ AdviceIdle /\ HostIdle
    /\ ExecIdle /\ RunIdle
    /\ \E reference_block_num \in {1, 2} :
          \E txs \in SeqsUpTo(ProvenTxs(reference_block_num), MaxBatchTxs) :
              batch = [pc |-> "input", reference_block_num |-> reference_block_num,
                       txs |-> txs, result |-> BatchErr("none")]

InitBlock ==
    /\ VmResIdle
    /\ PrepIdle
    /\ KernelIdle
    /\ sys = "block" /\ AccountIdle /\ VaultIdle /\ TxIdle /\ AdviceIdle /\ HostIdle
    /\ ExecIdle /\ RunIdle /\ BatchIdle
    /\ \E account_witness_root \in TreeRoots, nullifier_witness_root \in TreeRoots :
          \E batches \in SeqsUpTo(ProvenBatches, MaxBatches) :
              block = [NoBlock EXCEPT !.pc = "inputs",
                                      !.account_witness_root = account_witness_root,
                                      !.nullifier_witness_root = nullifier_witness_root,
                                      !.batches = batches]

InitKernel ==
    /\ VmResIdle
    /\ PrepIdle
    /\ sys = "kernel" /\ AccountIdle /\ VaultIdle /\ TxIdle /\ AdviceIdle /\ HostIdle
    /\ ExecIdle /\ RunIdle /\ BatchIdle /\ BlockIdle
    /\ \E is_faucet \in BOOLEAN, initial_vault \in KernelAmounts, input_notes \in KernelAmounts :
          /\ is_faucet => initial_vault = 0
          /\ kernel = [NoKernel EXCEPT !.pc = "loaded", !.is_faucet = is_faucet,
                                       !.initial_vault = initial_vault,
                                       !.input_notes = input_notes]

InitPrep ==
    /\ VmResIdle
    /\ KernelIdle
    /\ BlockIdle
    /\ BatchIdle
    /\ RunIdle
    /\ sys = "prep" /\ AccountIdle /\ VaultIdle /\ TxIdle /\ AdviceIdle /\ HostIdle
    /\ ExecIdle
    /\ prep \in {[NoPrep EXCEPT !.pc = "start", !.block_ref = b, !.notes = notes] :
                    b \in PrepBlockNums, notes \in PrepInputNotes}

\* What the VM can leave behind: a commitment of some list of notes on the
\* stack; an advice map with the final account's data or without it, and with
\* at most one entry of note data under the commitment of some list of notes.
VmResAdviceMaps ==
    LET accounts == {EmptyMap, MapInsert(EmptyMap, FinalAccountHash, <<>>)}
    IN accounts \cup
       {MapInsert(a, OutputNotesCommitment(key), data) :
           a \in accounts, key \in NoteData, data \in NoteData}

InitVmRes ==
    /\ KernelIdle
    /\ BlockIdle
    /\ BatchIdle
    /\ RunIdle
    /\ PrepIdle
    /\ sys = "vmres" /\ AccountIdle /\ VaultIdle /\ TxIdle /\ AdviceIdle /\ HostIdle
    /\ ExecIdle
    /\ vmres \in {[NoVmRes EXCEPT !.pc = "halted",
                                  !.stack_outputs =
                                      StackOutputs(OutputNotesCommitment(notes),
                                                   FinalAccountHash),
                                  !.advice_map = advice_map] :
                    notes \in NoteData, advice_map \in VmResAdviceMaps}

Init == InitVault \/ InitAccount \/ InitTx \/ InitAdvice \/ InitHost \/ InitExec \/ InitRun \/ InitBatch \/ InitBlock \/ InitKernel \/ InitPrep \/ InitVmRes
Next == NextVault \/ NextAccount \/ NextTx \/ NextAdvice \/ NextHost \/ NextExec \/ NextRun \/ NextBatch \/ NextBlock \/ NextKernel \/ NextPrep \/ NextVmRes

Spec == Init /\ [][Next]_vars
SpecVault == InitVault /\ [][NextVault]_vars
SpecAccount == InitAccount /\ [][NextAccount]_vars
SpecTx == InitTx /\ [][NextTx]_vars
SpecAdvice == InitAdvice /\ [][NextAdvice]_vars
SpecHost == InitHost /\ [][NextHost]_vars
SpecExec == InitExec /\ [][NextExec]_vars
SpecRun == InitRun /\ [][NextRun]_vars
SpecBatch == InitBatch /\ [][NextBatch]_vars
SpecBlock == InitBlock /\ [][NextBlock]_vars
SpecKernel == InitKernel /\ [][NextKernel]_vars
SpecPrep == InitPrep /\ [][NextPrep]_vars
SpecVmRes == InitVmRes /\ [][NextVmRes]_vars

-----------------------------------------------------------------------------
(* Account: nonce and seed                                                 *)

NonceOps == {"increment_nonce", "apply_delta"}

\* C1: an account built by Account::new or read_from, and then changed by
\* increment_nonce / apply_delta, has a seed exactly when its nonce is 0.
C1_SeedIffNewAccount ==
    account.exists => (account.seed.some <=> account.nonce = ZERO)

\* A new account (nonce 0, seed present) went through a successful
\* increment_nonce of 0 and is still new.
C1_Witness_StillNew ==
    /\ account.exists /\ account.seed.some /\ account.nonce = ZERO
    /\ accountResult.op = "increment_nonce" /\ accountResult.err = "none"

\* C2: increment_nonce / apply_delta never lower the nonce; they succeed only
\* when nonce + increment stays below the field modulus, and an increment_nonce
\* whose sum would wrap returns NonceOverflow and stores nothing.
C2_NonceNeverDecreases ==
    [][accountResult'.op \in NonceOps =>
         /\ account'.nonce >= account.nonce
         /\ (accountResult'.err = "none" =>
                /\ account.nonce + accountResult'.increment < FieldModulus
                /\ account'.nonce = account.nonce + accountResult'.increment)
         /\ ((accountResult'.op = "increment_nonce"
                /\ account.nonce + accountResult'.increment >= FieldModulus) =>
                /\ accountResult'.err = "NonceOverflow"
                /\ account' = account)]_vars

\* An increment was rejected with NonceOverflow while the nonce sat at the
\* largest felt.
C2_Witness_Overflow ==
    /\ account.exists /\ account.nonce = FieldModulus - 1
    /\ accountResult.op = "increment_nonce" /\ accountResult.err = "NonceOverflow"
    /\ accountResult.increment > 0

\* C3: a successful apply_delta leaves nonce = previous nonce + nonce_delta, and
\* clears the seed of an account that had one when the new nonce is above 0.
C3_ApplyDeltaNonceAndSeed ==
    [][(accountResult'.op = "apply_delta" /\ accountResult'.err = "none") =>
         /\ account'.nonce = account.nonce + accountResult'.increment
         /\ ((account.seed.some /\ account'.nonce > 0) => ~account'.seed.some)]_vars

\* A delta with a positive nonce_delta and a vault change was applied.
C3_Witness_Applied ==
    /\ account.exists /\ ~account.seed.some
    /\ accountResult.op = "apply_delta" /\ accountResult.err = "none"
    /\ accountResult.increment > 0 /\ account.nonce = accountResult.increment
    /\ account.vault # EmptySmt

-----------------------------------------------------------------------------
(* Advice map                                                              *)

\* C8 as stated: while the advice inputs are built, a key that holds a value
\* keeps that value; no step replaces it by another one.
C8_NoEntryReplaced ==
    [][\A k \in AdviceKeys :
          advice.map[k] # NoValue => advice'.map[k] = advice.map[k]]_vars

\* C8: the advice maps added with `merge` (note scripts, account code) leave
\* every existing entry as it is: the merge adds all of its entries when none
\* disagrees, and otherwise fails with a disagreeing key and both values and
\* adds nothing. The kernel's own entries (add_map_entry) and the advice of the
\* transaction arguments (extend) are written over whatever the key held.
C8_MergeConflictFreeOrFatal ==
    [][/\ advice'.op = "merge" =>
            LET conflicts == ConflictingEntries(advice.map, advice'.incoming)
            IN /\ \A k \in AdviceKeys :
                     advice.map[k] # NoValue => advice'.map[k] = advice.map[k]
               /\ conflicts = {} =>
                     /\ advice'.pc # "failed"
                     /\ advice'.map = extend_map(advice.map, advice'.incoming)
               /\ conflicts # {} =>
                     /\ advice'.pc = "failed"
                     /\ advice'.map = advice.map
                     /\ advice'.err.kind = "ConflictingAdviceMapEntry"
                     /\ advice'.err.key \in conflicts
                     /\ advice'.err.existing_val = advice.map[advice'.err.key]
                     /\ advice'.err.incoming_val = advice'.incoming[advice'.err.key]
       /\ advice'.op \in {"add_map_entry", "extend"} =>
            /\ advice'.pc # "failed"
            /\ \A k \in AdviceKeys :
                  advice'.incoming[k] # NoValue => advice'.map[k] = advice'.incoming[k]]_vars

\* The merge of an account code's advice map failed on an entry that
\* disagrees with the map.
C8_Witness_MergeFailed ==
    /\ advice.pc = "failed" /\ advice.op = "merge"
    /\ advice.err.kind = "ConflictingAdviceMapEntry"
    /\ advice.err.key = AccountKey("native", "code")
    /\ advice.account = "foreign"

\* C9 as stated: when the advice map of a source (note script, transaction
\* script, account code of the native or a foreign account) is added, a key on
\* which it disagrees with the map built so far aborts the preparation with
\* ConflictingAdviceMapEntry carrying the key and both values; without such a
\* key the step does not fail.
C9_SourceConflictAborts ==
    [][advice.pc \in {"note_script", "tx_script", "account_code_map"} =>
          LET conflicts == ConflictingEntries(advice.map, advice'.incoming)
          IN /\ conflicts = {} => advice'.pc # "failed"
             /\ conflicts # {} =>
                   /\ advice'.pc = "failed"
                   /\ advice'.err.kind = "ConflictingAdviceMapEntry"
                   /\ advice'.err.key \in conflicts
                   /\ advice'.err.existing_val = advice.map[advice'.err.key]
                   /\ advice'.err.incoming_val = advice'.incoming[advice'.err.key]]_vars

-----------------------------------------------------------------------------
(* Fee event                                                               *)

\* C10: when the data store serves the witness, the fee handler compares the
\* fee with the initial native-asset balance adjusted by the transaction's
\* vault delta: below the fee it fails with InsufficientFee carrying that
\* balance and the fee, otherwise it returns the witness's advice mutations.
C10_FeeCheckedAgainstCurrentBalance ==
    (host.pc \in {"fee_handled", "event_failed", "reported"} /\ host.store_ok) =>
        LET balance == KernelBalance(host)
            fee == host.fee_asset.amount
        IN /\ balance < fee =>
                /\ host.pc # "fee_handled"
                /\ host.result.err = InsufficientFee(balance, fee)
                /\ host.result.mutations = <<>>
           /\ balance >= fee =>
                /\ host.pc = "fee_handled"
                /\ host.result.err.kind = "none"
                /\ host.result.mutations =
                      asset_witness_to_advice_mutation(
                          AssetWitness(host.initial_vault, VaultKeyOf(host.fee_asset)))

\* The balance is one unit short of the fee after the transaction moved assets
\* out of the vault: InsufficientFee reports both amounts.
C10_Witness_OneShort ==
    /\ host.pc = "event_failed"
    /\ host.result.err.kind = "InsufficientFee"
    /\ host.result.err.account_balance + 1 = host.result.err.tx_fee
    /\ host.result.err.account_balance > 0
    /\ host.result.err.account_balance < GetBalance(host.initial_vault, NativeAssetId)

-----------------------------------------------------------------------------
(* AssetVault                                                              *)

\* The vault holds an entry under the asset's vault key.
VaultContains(v, asset) == SmtGetValue(v, VaultKeyOf(asset)) # EMPTY_VALUE

\* C5: remove_asset(a) fails exactly when the vault has no entry under a's
\* key or, for a fungible a, a.amount exceeds the balance of a's faucet.
C5_RemoveFailsIff ==
    vaultResult.op = "remove_asset" =>
        (~vaultResult.ok <=>
            \/ ~VaultContains(vaultResult.before, vaultResult.arg)
            \/ /\ vaultResult.arg.kind = "fungible"
               /\ vaultResult.arg.amount >
                      GetBalance(vaultResult.before, vaultResult.arg.id))

\* A removal failed although the faucet has an entry: the amount was too large.
C5_Witness_Underflow ==
    /\ vaultResult.op = "remove_asset" /\ ~vaultResult.ok
    /\ vaultResult.arg.kind = "fungible"
    /\ VaultContains(vaultResult.before, vaultResult.arg)

\* C6: when add_asset(a) succeeded on a vault V, removing a right afterwards
\* succeeds and gives back V: the same entries and the same root.
C6_AddRemoveRoundTrip ==
    [][(/\ vaultResult.op = "add_asset" /\ vaultResult.ok
        /\ vaultResult'.op = "remove_asset"
        /\ vaultResult'.arg = vaultResult.arg) =>
          /\ vaultResult'.ok
          /\ vault' = vaultResult.before
          /\ VaultRoot(vault') = VaultRoot(vaultResult.before)]_vars

\* C7: no faucet's stored balance exceeds MAX_AMOUNT, and an add_asset whose
\* sum would exceed MAX_AMOUNT fails and leaves the vault as it was.
C7_BalanceAtMostMax ==
    /\ \A k \in VaultKeys : vault[k].amount <= MAX_AMOUNT
    /\ \A f \in Faucets : GetBalance(vault, f) <= MAX_AMOUNT
    /\ (/\ vaultResult.op = "add_asset"
        /\ vaultResult.arg.kind = "fungible"
        /\ GetBalance(vaultResult.before, vaultResult.arg.id) + vaultResult.arg.amount
               > MAX_AMOUNT) =>
           (~vaultResult.ok /\ vault = vaultResult.before)

\* An add_asset was refused because the sum would pass MAX_AMOUNT.
C7_Witness_AddRefused ==
    /\ vaultResult.op = "add_asset" /\ ~vaultResult.ok
    /\ vaultResult.err = "AddFungibleAssetBalanceError"
    /\ GetBalance(vault, vaultResult.arg.id) > 0

-----------------------------------------------------------------------------
(* execute_transaction: errors                                             *)

\* Kernel errors of an authenticator failure and of an insufficient fee.
DedicatedKernelErrors ==
    {"MissingAuthenticator", "SignatureGenerationFailed", "InsufficientFee"}

\* C11 as stated: when an event fails because the host has no authenticator,
\* because the authenticator fails to sign or because the fee exceeds the
\* balance, the caller of execute_transaction gets an error variant of its own,
\* never TransactionProgramExecutionFailed.
C11_DedicatedErrorVariants ==
    (exec.pc = "failed" /\ exec.kernel_err.kind \in DedicatedKernelErrors)
        => exec.result.err.kind = "TransactionExecutorError::" \o exec.kernel_err.kind

-----------------------------------------------------------------------------
(* TransactionExecutorHost: AuthRequest                                    *)

\* The step in which the future of an event of `kind` completes.
Answers(kind) ==
    /\ Len(exec'.responses) = Len(exec.responses) + 1
    /\ exec'.answered.kind = kind

SignatureKey(signing_inputs) == HasherMerge(PubKey, SigningInputsCommitment(signing_inputs))

\* C13: when the authenticator returns a signature for an AuthRequest, the
\* host's response pushes the prepared signature onto the advice stack and the
\* same felt vector is stored in generated_signatures under
\* hash(pub_key, commitment of the signing inputs); the advice map is untouched.
C13_SignaturePushedAndRecorded ==
    [][(Answers("AuthRequest") /\ exec'.response.err.kind = "none") =>
          \E signature \in Signatures :
              LET prepared == to_prepared_signature(signature)
                  key == SignatureKey(exec'.answered.msg)
              IN /\ exec'.response.mutations = <<ExtendStack(prepared)>>
                 /\ exec'.advice.stack = Append(exec.advice.stack, prepared)
                 /\ exec'.advice.map = exec.advice.map
                 /\ key \in DOMAIN exec'.generated_signatures
                 /\ exec'.generated_signatures[key] = prepared
                 /\ \A k \in DOMAIN exec.generated_signatures \ {key} :
                       /\ k \in DOMAIN exec'.generated_signatures
                       /\ exec'.generated_signatures[k] = exec.generated_signatures[k]
                 /\ exec'.pc = "running"]_vars

\* Two AuthRequest events were answered with signatures.
C13_Witness_TwoSignatures ==
    /\ Len(exec.advice.stack) = 2
    /\ DOMAIN exec.generated_signatures = {SignatureKey(s) : s \in SigningInputs}
    /\ \A s \in SigningInputs :
          \E i \in 1 .. 2 : exec.advice.stack[i] = exec.generated_signatures[SignatureKey(s)]

\* C14: an AuthRequest ends the transaction with MissingAuthenticator when the
\* host has no authenticator and with SignatureGenerationFailed when the
\* authenticator does not sign; generated_signatures and the advice provider
\* are then as they were before the event.
C14_AuthFailureIsFatal ==
    [][Answers("AuthRequest") =>
          /\ ~exec.authenticator => exec'.response.err.kind = "MissingAuthenticator"
          /\ exec'.response.err.kind # "none" =>
                /\ exec'.pc = "failed"
                /\ exec'.kernel_err.kind = exec'.response.err.kind
                /\ exec'.kernel_err.kind \in
                      {"MissingAuthenticator", "SignatureGenerationFailed"}
                /\ exec'.kernel_err.kind = "SignatureGenerationFailed" => exec.authenticator
                /\ exec'.response.mutations = <<>>
                /\ exec'.generated_signatures = exec.generated_signatures
                /\ exec'.advice = exec.advice
                /\ ~exec'.result.tx.some]_vars

\* The authenticator signed one request and failed on the next one.
C14_Witness_SigningFailed ==
    /\ exec.pc = "failed"
    /\ exec.kernel_err.kind = "SignatureGenerationFailed"
    /\ exec.generated_signatures # EmptyMap

\* C15: the advice map of the inputs of a returned ExecutedTransaction holds
\* every entry of the host's generated_signatures, key and felt vector.
C15_SignaturesInAdviceMap ==
    exec.pc = "done" =>
        \A k \in DOMAIN exec.generated_signatures :
            /\ k \in DOMAIN exec.result.tx.tx_inputs.advice_map
            /\ exec.result.tx.tx_inputs.advice_map[k] = exec.generated_signatures[k]

\* A transaction with a generated signature succeeded.
C15_Witness_SignedTransaction ==
    /\ exec.pc = "done"
    /\ exec.generated_signatures # EmptyMap

-----------------------------------------------------------------------------
(* build_executed_transaction: consistency checks and post-fee delta       *)

\* The VM halted and its stack outputs were read.
OutputsRead == exec.pc \in {"done", "failed"} /\ exec.stack_outputs.outputs_ok

\* The delta the host tracked during execution: the fee is not taken off it.
PreFeeDelta == into_parts(exec).account_delta

FungibleEntry(vault_delta, faucet) ==
    IF faucet \in DOMAIN vault_delta.fungible THEN vault_delta.fungible[faucet] ELSE 0

\* C16: an ExecutedTransaction is returned only if the kernel's account delta
\* commitment equals the commitment of the delta tracked by the host, and a
\* kernel commitment that differs fails with InconsistentAccountDeltaCommitment.
C16_DeltaCommitmentChecked ==
    /\ exec.pc = "done" =>
          exec.stack_outputs.account_delta_commitment = DeltaCommitment(PreFeeDelta)
    /\ (OutputsRead
        /\ exec.stack_outputs.account_delta_commitment # DeltaCommitment(PreFeeDelta))
       => (exec.pc = "failed"
           /\ exec.result.err.kind = "InconsistentAccountDeltaCommitment")

\* The kernel reported another commitment for a transaction that paid a fee.
C16_Witness_CommitmentMismatch ==
    /\ exec.result.err.kind = "InconsistentAccountDeltaCommitment"
    /\ exec.fee_asset.amount > 0

\* C17: the delta of a returned ExecutedTransaction has
\* nonce_delta = final_account.nonce - initial_account.nonce, and a transaction
\* that passed the earlier checks with another nonce delta fails with
\* InconsistentAccountNonceDelta.
C17_NonceDeltaChecked ==
    LET expected == FeltSub(exec.stack_outputs.account.nonce, exec.initial_nonce)
    IN /\ exec.pc = "done" =>
             /\ exec.result.tx.account_delta.nonce_delta = expected
             /\ exec.result.tx.account_delta.nonce_delta
                   = FeltSub(exec.result.tx.tx_outputs.account.nonce,
                             exec.result.tx.tx_inputs.account.nonce)
       /\ (OutputsRead /\ exec.nonce_delta # expected) =>
             (exec.pc = "failed"
              /\ exec.result.err.kind \in
                    {"InconsistentAccountDeltaCommitment", "RemoveFeeAssetFromDelta",
                     "InconsistentAccountId", "InconsistentAccountNonceDelta"})
       /\ exec.result.err.kind = "InconsistentAccountNonceDelta" =>
             exec.nonce_delta # expected

\* The final nonce wrapped below the initial one while the host had tracked an
\* increment.
C17_Witness_NonceMismatch ==
    /\ exec.result.err.kind = "InconsistentAccountNonceDelta"
    /\ exec.nonce_delta = 1
    /\ exec.stack_outputs.account.nonce < exec.initial_nonce

\* C18: the delta of a returned ExecutedTransaction is the delta tracked by the
\* host with the fee taken off the native asset's entry of its vault part:
\* every other entry, the non-fungible part and the nonce delta are the host's.
C18_PostFeeDeltaIsPreFeeMinusFee ==
    exec.pc = "done" =>
        LET post == exec.result.tx.account_delta
            fee == exec.result.tx.tx_outputs.fee
        IN /\ fee = exec.fee_asset
           /\ FungibleEntry(post.vault, fee.id)
                 = FungibleEntry(PreFeeDelta.vault, fee.id) - fee.amount
           /\ \A f \in (DOMAIN post.vault.fungible \cup DOMAIN PreFeeDelta.vault.fungible)
                         \ {fee.id} :
                 FungibleEntry(post.vault, f) = FungibleEntry(PreFeeDelta.vault, f)
           /\ \A f \in DOMAIN post.vault.fungible : post.vault.fungible[f] # 0
           /\ post.vault.non_fungible = PreFeeDelta.vault.non_fungible
           /\ post.nonce_delta = PreFeeDelta.nonce_delta

\* A transaction that received one unit and paid it as fee: the post-fee
\* delta has no vault entry left.
C18_Witness_FeeCancelsDelta ==
    /\ exec.pc = "done"
    /\ exec.fee_asset.amount = 1
    /\ FungibleEntry(PreFeeDelta.vault, NativeAssetId) = 1
    /\ VaultDeltaIsEmpty(exec.result.tx.account_delta.vault)

-----------------------------------------------------------------------------
(* TransactionExecutorHost: witness requests and event order               *)

-----------------------------------------------------------------------------
(* TransactionExecutor: cycle budget                                       *)

\* C21 as stated: the executor's maximum number of cycles lies within
\* [MIN_TX_EXECUTION_CYCLES, MAX_TX_EXECUTION_CYCLES], and a run that completes
\* has not taken more cycles than that maximum.
C21_RunWithinConfiguredCycles ==
    /\ run.max_cycles \in MIN_TX_EXECUTION_CYCLES .. MAX_TX_EXECUTION_CYCLES
    /\ run.pc = "completed" => run.clk <= run.max_cycles

-----------------------------------------------------------------------------
(* ProposedBatch                                                           *)

\* The transactions of the batch against `acct`, in batch order.
TxsOf(acct) == SelectSeq(batch.txs, LAMBDA ptx : ptx.account = acct)

\* Every transaction against an account starts from the state the previous
\* transaction against that account ended in.
ChainHolds ==
    \A acct \in BatchAccounts :
        \A i \in 1 .. Len(TxsOf(acct)) - 1 :
            TxsOf(acct)[i + 1].initial_state = TxsOf(acct)[i].final_state

\* C22: a batch that was built has, for every account, transactions whose
\* initial state is the previous transaction's final state, and its update of
\* the account runs from the first initial to the last final state; a batch
\* whose chain is broken is rejected.
C22_BatchAccountStatesChain ==
    batch.pc = "proposed" =>
        /\ batch.result.ok => ChainHolds
        /\ ~ChainHolds => ~batch.result.ok
        /\ batch.result.ok =>
              \A acct \in DOMAIN batch.result.account_updates :
                  LET txs == TxsOf(acct)
                      update == batch.result.account_updates[acct]
                  IN /\ update.initial = txs[1].initial_state
                     /\ update.final = txs[Len(txs)].final_state
        /\ batch.result.err = "AccountUpdateInitialStateMismatch" => ~ChainHolds

\* Two transactions against one account, the second not starting where the
\* first ended, and nothing else wrong with the batch.
C22_Witness_BrokenChain ==
    /\ batch.pc = "proposed"
    /\ batch.result.err = "AccountUpdateInitialStateMismatch"
    /\ Len(batch.txs) = 2

Expired(ptx) == ptx.expiration_block_num <= batch.reference_block_num

\* C28: a batch with a transaction whose expiration block number is less
\* than or equal to the reference block number is rejected, with
\* ExpiredTransaction unless the batch is empty or holds a transaction twice;
\* without such a transaction the batch is not rejected for expiry.
C28_ExpiredTransactionRejected ==
    batch.pc = "proposed" =>
        LET expired == \E i \in 1 .. Len(batch.txs) : Expired(batch.txs[i])
        IN /\ expired => ~batch.result.ok
           /\ expired => batch.result.err \in {"ExpiredTransaction", "DuplicateTransaction"}
           /\ batch.result.err = "ExpiredTransaction" <=>
                 (expired /\ \A i, j \in 1 .. Len(batch.txs) :
                                 i # j => batch.txs[i] # batch.txs[j])
           /\ batch.result.ok =>
                 batch.result.expiration > batch.reference_block_num

\* A transaction expiring exactly at the reference block made the batch fail.
C28_Witness_ExpiresAtReference ==
    /\ batch.pc = "proposed"
    /\ batch.result.err = "ExpiredTransaction"
    /\ \A i \in 1 .. Len(batch.txs) :
          batch.txs[i].expiration_block_num >= batch.reference_block_num
    /\ Len(batch.txs) = 2

-----------------------------------------------------------------------------
(* ProposedBlock and ProvenBlock                                           *)

BlockBuilt == block.pc \in {"proposed", "proven", "failed"}

BatchOrders(n) == {p \in [1 .. n -> 1 .. n] : \A i, j \in 1 .. n : i # j => p[i] # p[j]}

\* The updates against `id` can be put in an order that starts in `state`
\* and in which every update starts where the one before it ended.
ChainExists(id, state) ==
    LET updates == UpdatesOf(block.batches, id)
        n == Cardinality(updates)
    IN \E order \in [1 .. n -> updates] :
          /\ \A i, j \in 1 .. n : i # j => order[i] # order[j]
          /\ n > 0 => order[1].initial = state
          /\ \A i \in 1 .. n - 1 : order[i + 1].initial = order[i].final

ConsumedAndCreated ==
    {n \in Notes : /\ InputNote(n, FALSE) \in BlockInputNotes(block.batches)
                   /\ n \in BlockOutputNotes(block.batches)}

\* C24: a note consumed unauthenticated and created in the same block has
\* its nullifier in no proposed or proven block's created nullifiers and is
\* among the output notes of no batch; every other note consumed or created
\* is kept.
C24_UnauthenticatedNoteErased ==
    BlockBuilt =>
        LET built == IF block.pc = "proven" THEN block.proven ELSE block.proposed
        IN /\ \A n \in ConsumedAndCreated :
                 /\ Nullifier(n) \notin built.created_nullifiers
                 /\ \A i \in DOMAIN built.output_note_batches :
                       n \notin built.output_note_batches[i]
           /\ \A n \in Notes \ ConsumedAndCreated :
                 /\ (\E a \in BOOLEAN : InputNote(n, a) \in BlockInputNotes(block.batches))
                       <=> Nullifier(n) \in built.created_nullifiers
                 /\ \A i \in DOMAIN built.output_note_batches :
                       n \in block.batches[i].output_notes
                           <=> n \in built.output_note_batches[i]

\* A block was proven in which the first batch creates the note the second
\* batch consumes unauthenticated.
C24_Witness_NoteErased ==
    /\ block.pc = "proven"
    /\ Len(block.batches) = 2
    /\ block.batches[1].output_notes = {"n1"}
    /\ block.batches[2].input_notes = {InputNote("n1", FALSE)}
    /\ block.proven.created_nullifiers = {}

\* The block consumes, and does not erase, a note that is spent in the
\* nullifier tree of the previous block.
ConsumesSpentNote ==
    \E n \in BlockInputNotes(block.batches) :
        /\ n.authenticated
        /\ NullifierSpentAt(PrevBlockHeader.nullifier_root, Nullifier(n.note))

\* C25: every nullifier a proven block creates was unspent in the nullifier
\* tree of the previous block; a block that consumes a spent note is never
\* proven, and is rejected with NullifierSpent when the nullifier witnesses
\* open to the previous block's root and no earlier check of the batches
\* (duplicates, expiration, unauthenticated notes) has refused it.
C25_CreatedNullifiersWereUnspent ==
    /\ block.pc = "proven" =>
          \A n \in block.proven.created_nullifiers :
              ~NullifierSpentAt(PrevBlockHeader.nullifier_root, n)
    /\ ConsumesSpentNote => block.pc # "proven"
    /\ (/\ block.pc # "inputs"
        /\ ConsumesSpentNote
        /\ block.nullifier_witness_root = PrevBlockHeader.nullifier_root)
          => /\ block.pc = "rejected"
             /\ block.proposed.err.kind \in
                   {"NullifierSpent", "DuplicateBatch", "ExpiredBatch",
                    "DuplicateInputNote", "DuplicateOutputNote",
                    "UnauthenticatedNoteConsumed"}
    /\ block.proposed.err.kind = "NullifierSpent" => ConsumesSpentNote

\* A block of one batch that consumes the spent note was rejected.
C25_Witness_SpentNoteRejected ==
    /\ block.pc = "rejected"
    /\ block.proposed.err.kind = "NullifierSpent"
    /\ Len(block.batches) = 1

Proving == block.pc \in {"proven", "failed"}

\* C26: proving a block whose account witnesses, or nullifier witnesses, open
\* to a root other than the previous block header's fails; the error is
\* StaleAccountTreeRoot, respectively StaleNullifierTreeRoot, with the previous
\* block's root, unless the other tree, or two witnesses under one id prefix,
\* made the proof fail before.
C26_StaleWitnessesFail ==
    Proving =>
        LET stale_accounts == /\ DOMAIN block.proposed.updated_accounts # {}
                              /\ block.account_witness_root # PrevBlockHeader.account_root
            stale_nullifiers == /\ block.proposed.created_nullifiers # {}
                                /\ block.nullifier_witness_root # PrevBlockHeader.nullifier_root
            err == block.proven.err
        IN /\ (stale_accounts \/ stale_nullifiers) => block.pc = "failed"
           /\ stale_accounts =>
                 \/ err = BlockError("StaleAccountTreeRoot", "none", PrevBlockHeader.account_root)
                 \/ err.kind = "AccountWitnessTracking"
                 \/ stale_nullifiers /\ err.kind = "StaleNullifierTreeRoot"
           /\ stale_nullifiers =>
                 \/ err = BlockError("StaleNullifierTreeRoot", "none",
                                     PrevBlockHeader.nullifier_root)
                 \/ err.kind \in {"AccountWitnessTracking", "AccountIdPrefixDuplicate"}
                 \/ stale_accounts /\ err.kind = "StaleAccountTreeRoot"
           /\ err.kind = "StaleAccountTreeRoot" => stale_accounts
           /\ err.kind = "StaleNullifierTreeRoot" => stale_nullifiers

\* Proving failed on account witnesses of the tree before the previous
\* block's, the nullifier witnesses being fresh.
C26_Witness_StaleAccountWitnesses ==
    /\ block.pc = "failed"
    /\ block.proven.err.kind = "StaleAccountTreeRoot"
    /\ block.nullifier_witness_root = PrevBlockHeader.nullifier_root
    /\ block.proposed.created_nullifiers # {}

\* Two accounts are created whose ids share their prefix; all witnesses open
\* to the roots of the previous block.
CreatesDuplicatePrefix ==
    /\ Proving
    /\ {NewIdP1, NewIdP2} \subseteq DOMAIN block.proposed.updated_accounts
    /\ block.account_witness_root = PrevBlockHeader.account_root
    /\ block.nullifier_witness_root = PrevBlockHeader.nullifier_root

\* C27 as stated: a block that creates two accounts under one id prefix
\* fails with AccountIdPrefixDuplicate carrying the prefix.
C27_DuplicatePrefixFailsOnInsert ==
    CreatesDuplicatePrefix =>
        /\ block.pc = "failed"
        /\ block.proven.err.kind = "AccountIdPrefixDuplicate"
        /\ block.proven.err.prefix = Prefix(NewIdP1)

\* C27: a block that creates two accounts under one id prefix fails with
\* AccountWitnessTracking carrying the prefix, while their witnesses are
\* tracked; AccountIdPrefixDuplicate is the failure of inserting a new account
\* under the prefix of an account that is in the tree.
C27_DuplicatePrefixFailsOnTracking ==
    /\ CreatesDuplicatePrefix =>
          /\ block.pc = "failed"
          /\ block.proven.err = BlockError("AccountWitnessTracking", Prefix(NewIdP1), <<>>)
    /\ (/\ Proving
        /\ NewIdR1 \in DOMAIN block.proposed.updated_accounts
        /\ block.account_witness_root = PrevBlockHeader.account_root
        /\ block.nullifier_witness_root = PrevBlockHeader.nullifier_root)
          => /\ block.pc = "failed"
             /\ block.proven.err.kind \in {"AccountWitnessTracking", "AccountIdPrefixDuplicate"}
             /\ block.proven.err.kind = "AccountIdPrefixDuplicate" =>
                   block.proven.err.prefix = Prefix(NewIdR1)
    /\ block.pc = "proven" =>
          \A a, b \in DOMAIN block.proven.updated_accounts : Prefix(a) = Prefix(b) => a = b

\* Proving failed on a block of two batches, each creating one of the two
\* accounts.
C27_Witness_TwoNewAccounts ==
    /\ CreatesDuplicatePrefix
    /\ block.pc = "failed"
    /\ block.proven.err.kind = "AccountWitnessTracking"

-----------------------------------------------------------------------------
(* Asset preservation                                                      *)

Entering == kernel.initial_vault + kernel.input_notes

Leaving == kernel.account_vault + kernel.output_notes

-----------------------------------------------------------------------------
(* Nonce increments within one transaction                                 *)

\* C31: within one transaction the nonce of the account is its initial nonce
\* or one more; a call of incr_nonce after the nonce was incremented fails
\* the transaction and leaves the nonce as it is.
C31_NonceIncrementedAtMostOnce ==
    /\ [](/\ tx.final_account.nonce \in
                {tx.initial_account.nonce, tx.initial_account.nonce + 1}
          /\ tx.err = NONCE_ONCE_ERROR =>
                (tx.phase = "failed"
                    /\ tx.final_account.nonce = tx.initial_account.nonce + 1))
    /\ [][(/\ tx.phase = "executing"
           /\ tx.final_account.nonce # tx.initial_account.nonce
           /\ tx'.final_account = tx.final_account
           /\ tx'.vault_delta = tx.vault_delta
           /\ tx'.phase = "failed")
             => tx'.err \in {NONCE_ONCE_ERROR, NONCE_CHECK_ERROR}]_vars
    /\ [][tx'.final_account.nonce # tx.final_account.nonce
             => (/\ tx.final_account.nonce = tx.initial_account.nonce
                 /\ tx'.phase = "executing")]_vars

\* The nonce was incremented and a second call of incr_nonce failed the
\* transaction.
C31_Witness_SecondIncrementFailed ==
    /\ tx.phase = "failed"
    /\ tx.err = NONCE_ONCE_ERROR
    /\ tx.final_account.nonce = tx.initial_account.nonce + 1

-----------------------------------------------------------------------------
(* Account::apply_delta and AssetVault: errors                             *)

\* C32 as stated: an apply_delta whose delta leaves the nonce where it is, or
\* below, returns an error (here for a delta that changes neither vault nor
\* storage).
C32_ApplyDeltaNeedsHigherNonce ==
    [][(/\ accountResult'.op = "apply_delta"
        /\ account'.vault = account.vault
        /\ account'.storage = account.storage
        /\ FeltAdd(account.nonce, accountResult'.increment) <= account.nonce)
          => accountResult'.err # "none"]_vars

\* C37 as stated: an apply_delta that returns an error leaves the account as
\* it was.
C37_FailedApplyDeltaLeavesAccount ==
    [][(accountResult'.op = "apply_delta" /\ accountResult'.err # "none")
          => account' = account]_vars

\* C38: an add_asset or remove_asset that returned an error left the entries
\* and the root of the vault as they were.
C38_FailedCallLeavesVault ==
    (vaultResult.op \in {"add_asset", "remove_asset"} /\ ~vaultResult.ok) =>
        /\ vault = vaultResult.before
        /\ VaultRoot(vault) = VaultRoot(vaultResult.before)

\* A non-fungible asset the vault holds was added again and refused.
C38_Witness_DuplicateRefused ==
    /\ vaultResult.op = "add_asset" /\ ~vaultResult.ok
    /\ vaultResult.err = "DuplicateNonFungibleAsset"
    /\ VaultContains(vault, vaultResult.arg)
    /\ \E f \in Faucets : GetBalance(vault, f) > 0

\* C39 as stated: the vault holds no fungible asset whose amount is zero.
C39_NoZeroFungibleEntry ==
    \A k \in VaultKeys :
        (vault[k] # EMPTY_VALUE /\ vault[k].kind = "fungible") => vault[k].amount > 0

-----------------------------------------------------------------------------
(* prepare_tx_inputs: notes created after the reference block              *)

\* Some authenticated input note of the call was created after the reference
\* block.
NotePastReference ==
    \E i \in 1 .. Len(prep.notes) :
        /\ prep.notes[i].location.some
        /\ prep.notes[i].location.block_num > prep.block_ref

-----------------------------------------------------------------------------
(* TransactionAdviceInputs::new: the seed of a new native account          *)

\* new has returned Ok for a native account that carries a seed.
BuiltForNewAccount == advice.pc = "done" /\ advice.seed.some

\* C34 as stated: the advice map that new returns for a new native account
\* maps the account-id key to the account's seed.
C34_SeedUnderAccountIdKey ==
    BuiltForNewAccount =>
        advice.map[account_id_map_key("native")] = advice.seed.word

\* C34: for a new native account new writes the seed under the account-id key,
\* and the map it returns maps that key to the seed unless the advice of the
\* transaction arguments, with which the map is extended last, carries an entry
\* under the key, which then is the value returned; for an account without a
\* seed the seed step leaves the advice map as it is.
C34_SeedUnlessOverriddenByArgs ==
    /\ [](BuiltForNewAccount =>
             advice.map[account_id_map_key("native")] =
                 IF advice.incoming[account_id_map_key("native")] # NoValue
                 THEN advice.incoming[account_id_map_key("native")]
                 ELSE advice.seed.word)
    /\ [][(advice.pc = "seed" /\ advice'.pc = "foreign") =>
             IF advice'.seed.some
             THEN advice'.map =
                     [advice.map EXCEPT ![account_id_map_key("native")] = advice'.seed.word]
             ELSE advice'.map = advice.map]_vars

\* A new account whose seed replaced another value under the account-id key
\* and reached the end of new, the advice of the transaction arguments leaving
\* the key alone.
C34_Witness_SeedInReturnedMap ==
    /\ BuiltForNewAccount
    /\ advice.incoming[account_id_map_key("native")] = NoValue
    /\ advice.map[account_id_map_key("native")] = "v2"
    /\ advice.seed.word = "v2"
    /\ advice.num_foreign = 1

-----------------------------------------------------------------------------
(* TransactionAdviceInputs::build_stack: the layout of the advice stack    *)

\* The advice stack has been built.
StackBuilt == advice.pc \notin {"idle", "new"}

-----------------------------------------------------------------------------
(* TryFromVmResult: the output notes commitment                            *)

\* The output notes commitment the VM left on its stack, and the note data the
\* advice map holds under it.
StackNotesCommitment ==
    Reversed(SubSeq(vmres.stack_outputs, 1, WORD_SIZE))
NotesReconstructed ==
    /\ FinalAccountHash \in DOMAIN vmres.advice_map
    /\ StackNotesCommitment \in DOMAIN vmres.advice_map
    /\ LET data == vmres.advice_map[StackNotesCommitment]
       IN \A i, j \in 1 .. Len(data) :
             /\ data[i] \in OutputNoteIds
             /\ data[i] = data[j] => i = j

\* C36: transaction outputs are accepted only if the output notes commitment
\* on the final stack equals the commitment recomputed from the output notes
\* reconstructed from the advice map, and these notes are the ones returned; a
\* mismatch between the two is reported as OutputNotesCommitmentInconsistent
\* with both commitments.
C36_OutputNotesCommitmentChecked ==
    /\ vmres.pc = "accepted" =>
          /\ NotesReconstructed
          /\ vmres.result.notes = vmres.advice_map[StackNotesCommitment]
          /\ StackNotesCommitment = OutputNotesCommitment(vmres.result.notes)
    /\ (/\ vmres.pc = "rejected"
        /\ vmres.result.err.kind \notin {"FinalAccountDataNotFound",
                                         "FinalAccountStubDataInvalid"}
        /\ NotesReconstructed
        /\ StackNotesCommitment #
               OutputNotesCommitment(vmres.advice_map[StackNotesCommitment])) =>
          vmres.result.err =
              TransactionResultError(
                  "OutputNotesCommitmentInconsistent", StackNotesCommitment,
                  OutputNotesCommitment(vmres.advice_map[StackNotesCommitment]))
    /\ vmres.result.err.kind = "OutputNotesCommitmentInconsistent" =>
          /\ NotesReconstructed
          /\ StackNotesCommitment #
                 OutputNotesCommitment(vmres.advice_map[StackNotesCommitment])

\* The advice map holds the notes 2, 1 under the commitment of the notes 1, 2
\* that is on the stack: the outputs are refused.
C36_Witness_CommitmentMismatch ==
    /\ vmres.pc = "rejected"
    /\ vmres.result.err.kind = "OutputNotesCommitmentInconsistent"
    /\ StackNotesCommitment = <<1, 2, 0, 0>>
    /\ vmres.advice_map[StackNotesCommitment] = <<2, 1>>

-----------------------------------------------------------------------------
(* ProposedBlock::new: batches at their expiration limit                   *)

\* The block inputs hold a batch whose expiration block number is the number
\* of the block being proposed.
BatchAtExpirationLimit ==
    \E i \in 1 .. Len(block.batches) :
        block.batches[i].batch_expiration_block_num = PrevBlockHeader.block_num + 1

\* C40: a batch whose expiration block number equals the number of the block
\* being proposed is never the reason a block is refused: ExpiredBatch is
\* reported only if some batch expires before that block, and a block whose
\* batches are otherwise acceptable is proposed with the batch in it.
C40_BatchAtExpirationLimitAccepted ==
    block.pc # "inputs" =>
        /\ block.proposed.err.kind = "ExpiredBatch" <=>
              /\ \A i, j \in 1 .. Len(block.batches) :
                     block.batches[i] = block.batches[j] => i = j
              /\ \E i \in 1 .. Len(block.batches) :
                     block.batches[i].batch_expiration_block_num
                         < PrevBlockHeader.block_num + 1
        /\ block.pc \in {"proposed", "proven", "failed"} =>
              /\ block.proposed.batches = block.batches
              /\ block.proposed.block_num = PrevBlockHeader.block_num + 1
              /\ \A i \in 1 .. Len(block.batches) :
                     block.batches[i].batch_expiration_block_num
                         >= block.proposed.block_num

\* A block of two batches, the second of which expires at the block being
\* proposed, is proposed.
C40_Witness_BatchAtLimitProposed ==
    /\ block.pc = "proposed"
    /\ Len(block.batches) = 2
    /\ block.batches[1].batch_expiration_block_num > PrevBlockHeader.block_num + 1
    /\ block.batches[2].batch_expiration_block_num = PrevBlockHeader.block_num + 1
    /\ block.proposed.block_num = block.batches[2].batch_expiration_block_num
    /\ block.proposed.batches = block.batches

====
